---- MODULE Spec2Model ----
(***************************************************************************)
(* gint session core: the memory provider (session/memory) and the Redis   *)
(* provider (package redis), the JWT manager both use, and the request     *)
(* contexts that call them.  One behaviour runs one provider, chosen in    *)
(* Init.  Time is a global clock in whole ticks; every time.Now() of the   *)
(* code reads it in the step that executes the call.                       *)
(***************************************************************************)
EXTENDS Integers, FiniteSets, Sequences, TLC

\* ---------------------------------------------------------------- bounds
MaxTime == 3        \* the clock runs 0..MaxTime
NReq == 2           \* request contexts handled concurrently
MaxRenews == 1      \* token pairs issued by RenewToken in one behaviour
MaxRotations == 2    \* the same, where rotation is what is explored
MaxSessions == 1    \* sessions created in one behaviour
MaxSweeps == 1      \* passes of the cleaner in one behaviour
MaxIssued == 2      \* tokens issued where the jwt manager is called alone
MaxTTL == 3         \* longest TTL given to it, in units of token time
MaxRate == 2        \* largest rate a limiter is built with
MaxActive == 2      \* largest maxActive an active-connection limit is built with
NConn == 3          \* connections open at once on the active-connection limit

\* --------------------------------------------------- program configuration
AccessExpire == 1   \* jwt.Options.AccessExpire, in ticks
RefreshExpire == 2  \* jwt.Options.RefreshExpire = Provider.expiration, in ticks
DestroyBack == 1    \* Session.Destroy moves expireTime this far into the past
TimePrecision == 2  \* jwt.TimePrecision (one second), in units of token time
Window == 2         \* the window a rate limiter is built with, in ticks

Backends == {"memory", "redis"}
Req == 1..NReq
Solo == {r \in Req : \A q \in Req : r <= q}   \* one request context of them
SSIDs == 1..MaxSessions
UserIds == {"u1", "u2"}
Attrs == {"role_a"}
Keys == {"k1", "k2"}
OneKey == {"k1"}     \* the key the initial data holds
Vals == {"v1", "v2"}
Absent == "absent"

NoToken == [kind |-> "none"]
NoPair == [AccessToken |-> NoToken, RefreshToken |-> NoToken]
NoSess == 0
NoClaims == [uid |-> "none", ssid |-> NoSess, data |-> "none"]

\* sessData arguments of NewSession: a nil map, a map with one entry.
EmptyData == [k \in Keys |-> Absent]
DataInputs == {[nilmap |-> TRUE, m |-> EmptyData],
               [nilmap |-> FALSE,
                m |-> [k \in Keys |-> IF k \in OneKey THEN "v1" ELSE Absent]]}

VARIABLES
    backend,    \* which provider this behaviour runs
    now,        \* the clock
    tokens,     \* every token signed so far by the jwt manager
    held,       \* the tokens clients have received in a response
    nsess,      \* session ids handed out so far (uuid.New)
    sessions,   \* memory Provider.sessions: the ids in the map
    recs,       \* memory Session objects on the heap, by id
    smu,        \* memory Session.mu: the request holding it across steps, by id
    sw,         \* the cleanExpiredSessions goroutine
    rkeys,      \* Redis: key gint:session:<id> -> hash with TTL
    req,        \* the request contexts
    last,       \* the call that returned last: its context and results
    hist,       \* history of returned calls (read by the properties only)
    lk,         \* memory provider, lock by lock: Provider.mu, Session.mu, the goroutines
    lim,        \* a rate limiter: its counters, the Allow calls in progress, its cleaner
    act,        \* an activelimit middleware: currentActive, the requests passing through
    hnd,        \* the requests passing through a handler wrapper W, B, S or BS
    car         \* a token carrier and the response its provider wrote last

\* The provider, its store and its callers; and what is modelled beside them.
store == <<backend, now, tokens, held, nsess, sessions, recs, smu, sw, rkeys, req, last, hist>>
beside == <<lk, lim, act, hnd, car>>
vars == <<store, beside>>

\* The goroutines that take the memory provider's locks: one per request,
\* and the cleaner (0).  The two kinds of lock: Provider.mu and the
\* Session.mu of a record.
Threads == Req \cup {0}
Mutexes == {"p.mu", "sess.mu"}
\* The requests that arrive at the active-connection limit.
Conns == 1..NConn

\* The keys the limiter's KeyFunc makes of the requests.
LimitKeys == {"ip:a", "ip:b"}

NoLocks ==
    [at |-> [t \in Threads |-> [op |-> "idle", i |-> 0]],
     w |-> [m \in Mutexes |-> {}],
     active |-> [m \in Mutexes |-> FALSE],
     r |-> [m \in Mutexes |-> {}]]

\* ------------------------------------------------------------- jwt manager

\* Token times are counted in units of 1/TimePrecision of a second, the
\* clock `now` of the providers in whole seconds.
Method == "HS256"    \* jwt.Options.Method
SignKey == "K1"      \* jwt.Options.SignKey

\* jwt.NewNumericDate: the time truncated to the second.
NumericDate(i) == i - (i % TimePrecision)

\* generateToken called at the instant i: RegisteredClaims stamped from
\* time.Now(), a fresh ID, signed with the configured method and key.
generateTokenAt(i, kind, uid, ssid, data, expire, jti) ==
    [kind |-> kind, uid |-> uid, ssid |-> ssid, data |-> data,
     exp |-> NumericDate(i + expire), iat |-> NumericDate(i), jti |-> jti,
     alg |-> Method, key |-> SignKey]

\* generateToken
generateToken(kind, uid, ssid, data, expire, jti) ==
    generateTokenAt(now * TimePrecision, kind, uid, ssid, data,
                    expire * TimePrecision, jti)

\* GenerateTokenPair: the access token, then the refresh token, same claims.
GenerateTokenPair(uid, ssid, data) ==
    LET n == Cardinality(tokens) IN
    [AccessToken |-> generateToken("access", uid, ssid, data, AccessExpire, n + 1),
     RefreshToken |-> generateToken("refresh", uid, ssid, data, RefreshExpire, n + 2)]

\* A verification that would still accept a token at its expires-at.
VerifyErrorAtInclusive(i, t) ==
    IF t.kind = "none" THEN "malformed"
    ELSE IF t.alg # Method THEN "unexpected method"
    ELSE IF t.key # SignKey THEN "signature invalid"
    ELSE IF ~(i <= t.exp) THEN "expired"
    ELSE IF ~(t.iat <= i) THEN "not valid yet"
    ELSE "nil"

\* A verification that would not look at the declared signing method.
VerifyErrorAtAnyMethod(i, t) ==
    IF t.kind = "none" THEN "malformed"
    ELSE IF t.key # SignKey /\ t.alg # "none" THEN "signature invalid"
    ELSE IF ~(i < t.exp) THEN "expired"
    ELSE IF ~(t.iat <= i) THEN "not valid yet"
    ELSE "nil"

\* verifyToken called at the instant i, as the error it returns: the parse,
\* the key function's check of the signing method, the signature against
\* the configured key, then the registered claims: exp must lie after the
\* instant, nbf (stamped like iat) must not.
VerifyErrorAt(i, t) ==
    IF t.kind = "none" THEN "malformed"
    ELSE IF t.alg # Method THEN "unexpected method"
    ELSE IF t.key # SignKey THEN "signature invalid"
    ELSE IF ~(i < t.exp) THEN "expired"
    ELSE IF ~(t.iat <= i) THEN "not valid yet"
    ELSE "nil"

\* verifyToken: claims are returned when there is no error.
verifyToken(t) == VerifyErrorAt(now * TimePrecision, t) = "nil"

\* A verification that would refuse a token in the tick it was issued in.
VerifyTokenAfterIssue(t) ==
    /\ verifyToken(t)
    /\ t.iat < now * TimePrecision

\* A verification that would refuse a refresh token that has already
\* bought a renewal (rotation with revocation).
VerifyRefreshTokenOnce(t) ==
    /\ verifyToken(t)
    /\ t \notin hist.renewed

\* A verification that would accept only the tokens issued as refresh
\* tokens.
VerifyRefreshTokenOfKind(t) ==
    /\ verifyToken(t)
    /\ t.kind = "refresh"

\* VerifyToken and VerifyRefreshToken are the same check: no token kind.
VerifyToken(t) == verifyToken(t)
VerifyRefreshToken(t) == verifyToken(t)

\* ---------------------------------------------------------- request context

\* What the properties remember of the moment a call started.
NoSnapshot ==
    [pd |-> FALSE, sd |-> FALSE, live |-> FALSE, exp |-> {},
     reused |-> FALSE, valid |-> FALSE, cached |-> FALSE]

FreshCtx(t, ch) ==
    [pc |-> "idle", op |-> "none",
     tok |-> IF ch = "access" THEN t ELSE NoToken,
     rtok |-> IF ch = "refresh" THEN t ELSE NoToken,
     cache |-> NoSess, handle |-> NoSess, hc |-> NoClaims,
     respA |-> NoToken, respR |-> NoToken, cleared |-> FALSE,
     err |-> "none", ret |-> NoSess, val |-> "none",
     claims |-> NoClaims, pair |-> NoPair, lnow |-> 0,
     key |-> "none", arg |-> "none",
     g0 |-> NoSnapshot]

\* The context of r as a call finds it: the request presents the token t in
\* the channel ch the call reads; the Session resolved earlier in the
\* request is still there.
Ctx(r, t, ch) ==
    [FreshCtx(t, ch) EXCEPT !.cache = req[r].cache, !.handle = req[r].handle,
                            !.hc = req[r].hc]

\* What a request can present: a token some client has received, or none.
Presentable == held \cup {NoToken}

CanBegin(r) == req[r].pc = "idle"

\* Fewer than n pairs have been issued by RenewToken.
Budget(n) == Cardinality(tokens) < 2 * (MaxSessions + n)

\* The record's absolute expiry, as a set: empty when there is none.
ExpiryOf(s) ==
    IF s = NoSess THEN {}
    ELSE IF backend = "memory"
         THEN (IF recs[s].alloc THEN {recs[s].expireTime} ELSE {})
         ELSE (IF rkeys[s].present /\ ~rkeys[s].persist THEN {rkeys[s].ttl} ELSE {})

Destroyed(s) == s \in hist.pdestroyed \cup hist.sdestroyed

\* The record of s is there and has not expired.
Live(s) ==
    /\ s # NoSess
    /\ IF backend = "memory"
       THEN s \in sessions /\ now <= recs[s].expireTime
       ELSE rkeys[s].present /\ (rkeys[s].persist \/ now <= rkeys[s].ttl)

\* The snapshot for a call on context c that names session s: whether
\* Provider.Destroy or Session.Destroy had returned for s, whether its
\* record was live, the record's expiry, whether the refresh token
\* presented had already bought a renewal, whether the token presented
\* passes verification, whether the context had a Session cached.
Snapshot(c, s) ==
    [pd |-> s \in hist.pdestroyed, sd |-> s \in hist.sdestroyed,
     live |-> Live(s), exp |-> ExpiryOf(s),
     reused |-> c.rtok \in hist.renewed,
     valid |-> verifyToken(c.tok) \/ verifyToken(c.rtok),
     cached |-> c.cache # NoSess]

NoLast == [r |-> 0, c |-> FreshCtx(NoToken, "access")]

\* The request of r is over; the next one starts on a new context.
EndRequest(r) ==
    /\ req[r].pc = "idle"
    /\ req[r] # FreshCtx(NoToken, "access")
    /\ req' = [req EXCEPT ![r] = FreshCtx(NoToken, "access")]
    /\ last' = NoLast
    /\ UNCHANGED <<beside, backend, now, tokens, held, nsess, sessions, recs, smu, sw, rkeys, hist>>

\* The context c entering operation op at label pc0 on session s.
Enter(c, op, pc0, s) ==
    [c EXCEPT !.pc = pc0, !.op = op, !.err = "none", !.ret = NoSess, !.val = "none",
              !.claims = NoClaims, !.pair = NoPair,
              !.g0 = Snapshot(c, s)]

\* The context between two calls: what a call leaves behind for the next
\* one, the Session cached on it and the Session the handler holds.
Idle(c) ==
    [FreshCtx(NoToken, "access") EXCEPT !.cache = c.cache, !.handle = c.handle, !.hc = c.hc]

\* The call of r, in context c, returns e.
Return(r, c, e) ==
    /\ req' = [req EXCEPT ![r] = Idle(c)]
    /\ last' = [r |-> r, c |-> [c EXCEPT !.pc = "idle", !.err = e]]

\* The call of r goes on in context c.
Goto(r, c) ==
    /\ req' = [req EXCEPT ![r] = c]
    /\ last' = NoLast

\* ------------------------------------------------------------------- clock

\* Time passes.
Tick ==
    /\ now < MaxTime
    /\ now' = now + 1
    /\ last' = NoLast
    /\ UNCHANGED <<beside, backend, tokens, held, nsess, sessions, recs, smu, sw, rkeys, req, hist>>

\* ------------------------------------------------- memory Session (record)

NoRec == [alloc |-> FALSE, uid |-> "none", attrs |-> "none",
          data |-> [nilmap |-> TRUE, m |-> EmptyData], expireTime |-> 0]

\* time.Now().After(s.expireTime)
Expired(s) == now > recs[s].expireTime

\* Session.mu is free.
Unlocked(s) == smu[s] = 0

\* What NewSession was called with and returned, kept for the properties.
Born(u, pair, d) ==
    [ok |-> TRUE, at |-> now, uid |-> u, access |-> pair.AccessToken,
     refresh |-> pair.RefreshToken, data |-> d]

NoBorn ==
    [ok |-> FALSE, at |-> 0, uid |-> "none", access |-> NoToken,
     refresh |-> NoToken, data |-> [nilmap |-> TRUE, m |-> EmptyData]]

\* The session id a token names (none for the empty string).
SsidOf(t) == IF t.kind = "none" THEN NoSess ELSE t.ssid

\* The Claims() of a Session built from the claims cl.
ClaimsOf(cl) == [uid |-> cl.uid, ssid |-> cl.ssid, data |-> cl.data]

\* ------------------------------------------------ memory Provider.NewSession

\* Session.Claims of the memory Session s: its user id, id and Data.
MemClaims(s) == [uid |-> recs[s].uid, ssid |-> s, data |-> recs[s].attrs]

\* NewSession: uuid.New, the claims, GenerateTokenPair, the Session object
\* with expireTime = time.Now().Add(p.expiration), the store into the map
\* under p.mu, both injections.
MemNewSession(r, c, u, a, d) ==
    /\ backend = "memory"
    /\ CanBegin(r)
    /\ nsess < MaxSessions
    /\ LET ssid == nsess + 1
           pair == GenerateTokenPair(u, ssid, a)
           cl == ClaimsOf(pair.AccessToken)
       IN /\ tokens' = tokens \cup {pair.AccessToken, pair.RefreshToken}
          /\ held' = held \cup {pair.AccessToken, pair.RefreshToken}
          /\ recs' = [recs EXCEPT ![ssid] =
                 [alloc |-> TRUE, uid |-> u, attrs |-> a,
                  data |-> d, expireTime |-> now + RefreshExpire]]
          /\ sessions' = sessions \cup {ssid}
          /\ Return(r, [Enter(c, "NewSession", "idle", NoSess) EXCEPT
                          !.pair = pair, !.claims = cl,
                          !.respA = pair.AccessToken, !.respR = pair.RefreshToken,
                          !.handle = ssid, !.ret = ssid, !.hc = cl], "nil")
          /\ hist' = [hist EXCEPT !.born = [@ EXCEPT ![ssid] = Born(u, pair, d)]]
    /\ nsess' = nsess + 1
    /\ UNCHANGED <<beside, backend, now, smu, sw, rkeys>>

\* ------------------------------------------------------ memory Provider.Get

\* Get, up to the lookup: carrier.Extract, the empty check, VerifyToken,
\* p.sessions[claims.SSID] under p.mu.RLock.
MemGet_Lookup(r, c) ==
    /\ backend = "memory"
    /\ CanBegin(r)
    /\ LET e == Enter(c, "Get", "mg_lock", SsidOf(c.tok)) IN
       IF c.tok = NoToken THEN Return(r, e, "token not found")
       ELSE IF ~VerifyToken(c.tok) THEN Return(r, e, "verify failed")
       ELSE IF c.tok.ssid \notin sessions
       THEN Return(r, [e EXCEPT !.claims = ClaimsOf(c.tok)], "ErrSessionNotFound")
       ELSE Goto(r, [e EXCEPT !.claims = ClaimsOf(c.tok)])
    /\ UNCHANGED <<beside, backend, now, tokens, held, nsess, sessions, recs, smu, sw, rkeys, hist>>

\* sess.mu.Lock, now := time.Now(), the expiry check; an expired session
\* is unlocked again at once.
MemGet_Lock(r) ==
    /\ req[r].pc = "mg_lock"
    /\ Unlocked(req[r].claims.ssid)
    /\ LET s == req[r].claims.ssid IN
       IF Expired(s)
       THEN /\ Goto(r, [req[r] EXCEPT !.pc = "mg_delete", !.lnow = now])
            /\ smu' = smu
       ELSE /\ Goto(r, [req[r] EXCEPT !.pc = "mg_renew", !.lnow = now])
            /\ smu' = [smu EXCEPT ![s] = r]
    /\ UNCHANGED <<beside, backend, now, tokens, held, nsess, sessions, recs, sw, rkeys, hist>>

\* delete(p.sessions, claims.SSID) under p.mu.Lock; ErrSessionExpired.
MemGet_Delete(r) ==
    /\ req[r].pc = "mg_delete"
    /\ sessions' = sessions \ {req[r].claims.ssid}
    /\ Return(r, req[r], "ErrSessionExpired")
    /\ UNCHANGED <<beside, backend, now, tokens, held, nsess, recs, smu, sw, rkeys, hist>>

\* sess.expireTime = now.Add(p.expiration), sess.mu.Unlock, return sess.
MemGet_Renew(r) ==
    /\ req[r].pc = "mg_renew"
    /\ LET s == req[r].claims.ssid IN
       /\ recs' = [recs EXCEPT ![s].expireTime = req[r].lnow + RefreshExpire]
       /\ smu' = [smu EXCEPT ![s] = 0]
       /\ Return(r, [req[r] EXCEPT !.ret = s, !.handle = s, !.hc = MemClaims(s)], "nil")
    /\ UNCHANGED <<beside, backend, now, tokens, held, nsess, sessions, sw, rkeys, hist>>

\* -------------------------------------------------- memory Provider.Destroy

\* Destroy: carrier.Extract, the empty check, VerifyToken,
\* delete(p.sessions, claims.SSID) under p.mu.Lock, carrier.Clear, nil.
MemDestroy(r, c) ==
    /\ backend = "memory"
    /\ CanBegin(r)
    /\ LET e == Enter(c, "Destroy", "idle", SsidOf(c.tok)) IN
       IF c.tok = NoToken
       THEN /\ Return(r, e, "token not found")
            /\ UNCHANGED <<sessions, hist>>
       ELSE IF ~VerifyToken(c.tok)
       THEN /\ Return(r, e, "verify failed")
            /\ UNCHANGED <<sessions, hist>>
       ELSE /\ sessions' = sessions \ {c.tok.ssid}
            /\ Return(r, [e EXCEPT !.claims = ClaimsOf(c.tok), !.cleared = TRUE], "nil")
            /\ hist' = [hist EXCEPT !.pdestroyed = @ \cup {c.tok.ssid}]
    /\ UNCHANGED <<beside, backend, now, tokens, held, nsess, recs, smu, sw, rkeys>>

\* ----------------------------------------------- memory Provider.RenewToken

\* RenewToken, up to the lookup: ctx.GetHeader("X-Refresh-Token"), the
\* empty check, VerifyRefreshToken, p.sessions[claims.SSID] under p.mu.RLock.
MemRenew_Lookup(r, c) ==
    /\ backend = "memory"
    /\ CanBegin(r)
    /\ LET e == Enter(c, "RenewToken", "mr_check", SsidOf(c.rtok)) IN
       IF c.rtok = NoToken THEN Return(r, e, "no refresh token")
       ELSE IF ~VerifyRefreshToken(c.rtok) THEN Return(r, e, "verify failed")
       ELSE IF c.rtok.ssid \notin sessions
       THEN Return(r, [e EXCEPT !.claims = ClaimsOf(c.rtok)], "session missing")
       ELSE Goto(r, [e EXCEPT !.claims = ClaimsOf(c.rtok)])
    /\ UNCHANGED <<beside, backend, now, tokens, held, nsess, sessions, recs, smu, sw, rkeys, hist>>

\* time.Now().After(sess.expireTime), read without sess.mu; then
\* GenerateTokenPair(*claims) and both injections.
MemRenew_Check(r) ==
    /\ req[r].pc = "mr_check"
    /\ IF Expired(req[r].claims.ssid)
       THEN /\ Return(r, req[r], "session expired")
            /\ tokens' = tokens
       ELSE LET cl == req[r].claims
                pair == GenerateTokenPair(cl.uid, cl.ssid, cl.data)
            IN /\ Goto(r, [req[r] EXCEPT !.pc = "mr_renew", !.pair = pair,
                             !.respA = pair.AccessToken, !.respR = pair.RefreshToken])
               /\ tokens' = tokens \cup {pair.AccessToken, pair.RefreshToken}
    /\ UNCHANGED <<beside, backend, now, held, nsess, sessions, recs, smu, sw, rkeys, hist>>

\* sess.mu.Lock, sess.expireTime = time.Now().Add(p.expiration), Unlock, nil.
MemRenew_Renew(r) ==
    /\ req[r].pc = "mr_renew"
    /\ Unlocked(req[r].claims.ssid)
    /\ LET s == req[r].claims.ssid IN
       /\ recs' = [recs EXCEPT ![s].expireTime = now + RefreshExpire]
       /\ Return(r, req[r], "nil")
       /\ held' = held \cup {req[r].pair.AccessToken, req[r].pair.RefreshToken}
       /\ hist' = [hist EXCEPT !.renewed = @ \cup {req[r].rtok}]
    /\ UNCHANGED <<beside, backend, now, tokens, nsess, sessions, smu, sw, rkeys>>

\* --------------------------------------- memory Provider.cleanExpiredSessions

SweepIdle(n) == [pc |-> "idle", now |-> 0, expiredIDs |-> {}, passes |-> n]

\* A tick of the ticker, first phase: now := time.Now(); under p.mu.RLock
\* every session whose expireTime lies before now is collected (the read
\* of expireTime takes no sess.mu).  With nothing collected the pass ends.
Sweep_Collect ==
    /\ backend = "memory"
    /\ sw.pc = "idle"
    /\ sw.passes < MaxSweeps
    /\ LET ids == {id \in sessions : now > recs[id].expireTime} IN
       sw' = IF ids = {} THEN SweepIdle(sw.passes + 1)
             ELSE [pc |-> "delete", now |-> now, expiredIDs |-> ids,
                   passes |-> sw.passes + 1]
    /\ last' = NoLast
    /\ UNCHANGED <<beside, backend, now, tokens, held, nsess, sessions, recs, smu, rkeys, req, hist>>

\* A second phase that would delete every collected id without looking at
\* its expireTime again.
Sweep_DeleteUnchecked ==
    /\ sw.pc = "delete"
    /\ sessions' = sessions \ sw.expiredIDs
    /\ sw' = SweepIdle(sw.passes)
    /\ last' = NoLast
    /\ UNCHANGED <<beside, backend, now, tokens, held, nsess, recs, smu, rkeys, req, hist>>

\* Second phase, under p.mu.Lock: each collected id still in the map is
\* checked again, against the now of the first phase and again without
\* sess.mu, and deleted when still expired.
Sweep_Delete ==
    /\ sw.pc = "delete"
    /\ sessions' = sessions \
          {id \in sw.expiredIDs : id \in sessions /\ sw.now > recs[id].expireTime}
    /\ sw' = SweepIdle(sw.passes)
    /\ last' = NoLast
    /\ UNCHANGED <<beside, backend, now, tokens, held, nsess, recs, smu, rkeys, req, hist>>

\* The first phase of a pass that is not counted: the ticker goes on for
\* as long as the process runs.
Sweep_CollectEver ==
    /\ backend = "memory"
    /\ sw.pc = "idle"
    /\ LET ids == {id \in sessions : now > recs[id].expireTime} IN
       sw' = IF ids = {} THEN SweepIdle(sw.passes)
             ELSE [pc |-> "delete", now |-> now, expiredIDs |-> ids,
                   passes |-> sw.passes]
    /\ last' = NoLast
    /\ UNCHANGED <<beside, backend, now, tokens, held, nsess, sessions, recs, smu, rkeys, req, hist>>

\* ------------------------------------------------- memory Session methods
\* Each method holds s.mu from its first statement to its return (defer),
\* so it is one step, taken when no other holder has the lock.

MemSessCanBegin(r) ==
    /\ backend = "memory"
    /\ CanBegin(r)
    /\ req[r].handle # NoSess
    /\ Unlocked(req[r].handle)

\* Session.Get
MemSession_Get(r, k) ==
    /\ MemSessCanBegin(r)
    /\ LET s == req[r].handle
           e == [Enter(req[r], "Session.Get", "idle", s) EXCEPT !.key = k]
       IN IF Expired(s) THEN Return(r, e, "ErrSessionExpired")
          ELSE IF recs[s].data.m[k] = Absent THEN Return(r, e, "key not found")
          ELSE Return(r, [e EXCEPT !.val = recs[s].data.m[k]], "nil")
    /\ UNCHANGED <<beside, backend, now, tokens, held, nsess, sessions, recs, smu, sw, rkeys, hist>>

\* Session.Set: a store into a nil map panics.
MemSession_Set(r, k, v) ==
    /\ MemSessCanBegin(r)
    /\ LET s == req[r].handle
           e == [Enter(req[r], "Session.Set", "idle", s) EXCEPT !.key = k, !.arg = v]
       IN IF Expired(s)
          THEN /\ Return(r, e, "ErrSessionExpired")
               /\ recs' = recs
          ELSE IF recs[s].data.nilmap
          THEN /\ Return(r, e, "panic")
               /\ recs' = recs
          ELSE /\ Return(r, e, "nil")
               /\ recs' = [recs EXCEPT ![s].data.m[k] = v]
    /\ UNCHANGED <<beside, backend, now, tokens, held, nsess, sessions, smu, sw, rkeys, hist>>

\* Session.Del
MemSession_Del(r, k) ==
    /\ MemSessCanBegin(r)
    /\ LET s == req[r].handle
           e == [Enter(req[r], "Session.Del", "idle", s) EXCEPT !.key = k]
       IN IF Expired(s)
          THEN /\ Return(r, e, "ErrSessionExpired")
               /\ recs' = recs
          ELSE /\ Return(r, e, "nil")
               /\ recs' = [recs EXCEPT ![s].data.m[k] = Absent]
    /\ UNCHANGED <<beside, backend, now, tokens, held, nsess, sessions, smu, sw, rkeys, hist>>

\* Session.Destroy: expireTime = time.Now().Add(-time.Hour).
MemSession_Destroy(r) ==
    /\ MemSessCanBegin(r)
    /\ LET s == req[r].handle IN
       /\ Return(r, Enter(req[r], "Session.Destroy", "idle", s), "nil")
       /\ recs' = [recs EXCEPT ![s].expireTime = now - DestroyBack]
       /\ hist' = [hist EXCEPT !.sdestroyed = @ \cup {s}]
    /\ UNCHANGED <<beside, backend, now, tokens, held, nsess, sessions, smu, sw, rkeys>>

\* Session.Refresh: the expiry check and nothing else.
MemSession_Refresh(r) ==
    /\ MemSessCanBegin(r)
    /\ LET s == req[r].handle
           e == Enter(req[r], "Session.Refresh", "idle", s)
       IN IF Expired(s) THEN Return(r, e, "ErrSessionExpired") ELSE Return(r, e, "nil")
    /\ UNCHANGED <<beside, backend, now, tokens, held, nsess, sessions, recs, smu, sw, rkeys, hist>>

\* ------------------------------------------------------------ Redis server
\* One hash per session under sessionKey(ssid) = "gint:session:" + ssid.

RFields == Keys \cup {"user_id", "created_at"}
NoFields == [k \in RFields |-> Absent]
NoKey == [present |-> FALSE, persist |-> FALSE, ttl |-> 0, f |-> NoFields]

\* A key whose TTL has run out is gone for every command.
RLive(s) == rkeys[s].present /\ (rkeys[s].persist \/ now <= rkeys[s].ttl)
RKey(s) == IF RLive(s) THEN rkeys[s] ELSE NoKey

\* A value of type any is written as text: a Go string as its characters,
\* a Go number as its type, a colon and its digits ("int:1", "float64:1").
\* json.Marshal of a stored value: a number becomes its digits, a string
\* is put between quotes.
JsonMarshal(v) ==
    LET pre == {p \in {"int:", "int64:", "float64:"} :
                   Len(v) > Len(p) /\ SubSeq(v, 1, Len(p)) = p}
    IN <<"json", IF pre = {} THEN "\"" \o v \o "\""
                 ELSE LET p == CHOOSE q \in pre : TRUE
                      IN SubSeq(v, Len(p) + 1, Len(v))>>

\* json.Unmarshal into a variable of type any: a quoted text gives the
\* string, digits give a float64.
JsonUnmarshal(d) ==
    LET t == d[2] IN
    IF SubSeq(t, 1, 1) = "\"" THEN SubSeq(t, 2, Len(t) - 1)
    ELSE "float64:" \o t

\* EXISTS key
RExists(s) == RLive(s)

\* HSET key field value: creates the hash, without a TTL, when it is absent.
RHSet(k0, field, v) ==
    IF k0.present THEN [k0 EXCEPT !.f[field] = v]
    ELSE [present |-> TRUE, persist |-> TRUE, ttl |-> 0,
          f |-> [NoFields EXCEPT ![field] = v]]

\* An EXPIRE that would add the seconds to the time the key has left.
RExpireAdd(k0, d) ==
    IF ~k0.present THEN k0
    ELSE [k0 EXCEPT !.persist = FALSE,
                    !.ttl = IF k0.persist THEN now + d ELSE k0.ttl + d]

\* EXPIRE key seconds: nothing happens to an absent key.
RExpire(k0, d) ==
    IF k0.present THEN [k0 EXCEPT !.persist = FALSE, !.ttl = now + d] ELSE k0

\* HDEL key field: a hash left without fields is removed.
RHDel(k0, field) ==
    IF ~k0.present THEN k0
    ELSE LET f2 == [k0.f EXCEPT ![field] = Absent] IN
         IF f2 = NoFields THEN NoKey ELSE [k0 EXCEPT !.f = f2]

\* ------------------------------------------------- redis Provider.NewSession

\* init's pipeline as a sequence of commands on one key: one HSET per
\* entry of the data.
RECURSIVE InitFields(_, _, _)
InitFields(k0, data, todo) ==
    IF todo = {} THEN k0
    ELSE LET k == CHOOSE x \in todo : TRUE IN
         InitFields(IF data[k] = Absent THEN k0 ELSE RHSet(k0, k, JsonMarshal(data[k])),
                    data, todo \ {k})

\* NewSession: uuid.New, the claims, GenerateTokenPair, both injections;
\* sessData (a new map when nil) gets user_id and created_at; sess.init runs
\* the pipeline of HSETs and the EXPIRE; the Session is returned.
RedisNewSession(r, c, u, a, d) ==
    /\ backend = "redis"
    /\ CanBegin(r)
    /\ nsess < MaxSessions
    /\ LET ssid == nsess + 1
           pair == GenerateTokenPair(u, ssid, a)
           cl == ClaimsOf(pair.AccessToken)
           data == [k \in RFields |->
                      IF k = "user_id" THEN u
                      ELSE IF k = "created_at" THEN "int64:unix"
                      ELSE d.m[k]]
       IN /\ tokens' = tokens \cup {pair.AccessToken, pair.RefreshToken}
          /\ held' = held \cup {pair.AccessToken, pair.RefreshToken}
          /\ rkeys' = [rkeys EXCEPT ![ssid] =
                 RExpire(InitFields(RKey(ssid), data, RFields), RefreshExpire)]
          /\ Return(r, [Enter(c, "NewSession", "idle", NoSess) EXCEPT
                          !.pair = pair, !.claims = cl,
                          !.respA = pair.AccessToken, !.respR = pair.RefreshToken,
                          !.handle = ssid, !.ret = ssid, !.hc = cl], "nil")
          /\ hist' = [hist EXCEPT !.born = [@ EXCEPT ![ssid] = Born(u, pair, d)]]
    /\ nsess' = nsess + 1
    /\ UNCHANGED <<beside, backend, now, sessions, recs, smu, sw>>

\* ------------------------------------------------------- redis Provider.Get

\* What Get does on the context c: a Session cached on the context is
\* returned as it is; else carrier.Extract, the empty check, VerifyToken,
\* newSession(claims.SSID, ..., claims), EXISTS, ctx.Set(CtxSessionKey, sess).
\* The result is the context after the call and the error.
RedisGetOn(c) ==
    IF c.cache # NoSess
    THEN [c |-> [c EXCEPT !.ret = c.cache, !.handle = c.cache], err |-> "nil"]
    ELSE IF c.tok = NoToken THEN [c |-> c, err |-> "token not found"]
    ELSE IF ~VerifyToken(c.tok) THEN [c |-> c, err |-> "verify failed"]
    ELSE IF ~RExists(c.tok.ssid)
    THEN [c |-> [c EXCEPT !.claims = ClaimsOf(c.tok)], err |-> "session missing"]
    ELSE [c |-> [c EXCEPT !.claims = ClaimsOf(c.tok), !.cache = c.tok.ssid,
                          !.ret = c.tok.ssid, !.handle = c.tok.ssid,
                          !.hc = ClaimsOf(c.tok)],
          err |-> "nil"]

\* Provider.Get
RedisGet(r, c) ==
    /\ backend = "redis"
    /\ CanBegin(r)
    /\ LET g == RedisGetOn(Enter(c, "Get", "idle", SsidOf(c.tok))) IN
       Return(r, g.c, g.err)
    /\ UNCHANGED <<beside, backend, now, tokens, held, nsess, sessions, recs, smu, sw, rkeys, hist>>

\* --------------------------------------------------- redis Provider.Destroy

\* Destroy, first part: p.Get(ctx); its error is returned; else
\* tokenCarrier.Clear.
RedisDestroy_Get(r, c) ==
    /\ backend = "redis"
    /\ CanBegin(r)
    /\ LET g == RedisGetOn(Enter(c, "Destroy", "rd_del", SsidOf(c.tok))) IN
       IF g.err # "nil" THEN Return(r, g.c, g.err)
       ELSE Goto(r, [g.c EXCEPT !.cleared = TRUE])
    /\ UNCHANGED <<beside, backend, now, tokens, held, nsess, sessions, recs, smu, sw, rkeys, hist>>

\* Destroy, second part: sess.Destroy(ctx), the DEL of the key.
RedisDestroy_Del(r) ==
    /\ req[r].pc = "rd_del"
    /\ LET s == req[r].ret IN
       /\ rkeys' = [rkeys EXCEPT ![s] = NoKey]
       /\ Return(r, [req[r] EXCEPT !.ret = NoSess], "nil")
       /\ hist' = [hist EXCEPT !.pdestroyed = @ \cup {s}]
    /\ UNCHANGED <<beside, backend, now, tokens, held, nsess, sessions, recs, smu, sw>>

\* ------------------------------------------------ redis Provider.RenewToken

\* RenewToken, up to the injections: ctx.GetHeader("X-Refresh-Token"), the
\* empty check, VerifyRefreshToken, EXISTS, GenerateTokenPair(*claims), both
\* injections.
RedisRenew_Exists(r, c) ==
    /\ backend = "redis"
    /\ CanBegin(r)
    /\ LET e == Enter(c, "RenewToken", "rr_expire", SsidOf(c.rtok)) IN
       IF c.rtok = NoToken
       THEN /\ Return(r, e, "no refresh token")
            /\ tokens' = tokens
       ELSE IF ~VerifyRefreshToken(c.rtok)
       THEN /\ Return(r, e, "verify failed")
            /\ tokens' = tokens
       ELSE IF ~RExists(c.rtok.ssid)
       THEN /\ Return(r, [e EXCEPT !.claims = ClaimsOf(c.rtok)], "session missing")
            /\ tokens' = tokens
       ELSE LET cl == ClaimsOf(c.rtok)
                pair == GenerateTokenPair(cl.uid, cl.ssid, cl.data)
            IN /\ Goto(r, [e EXCEPT !.claims = cl, !.pair = pair,
                             !.respA = pair.AccessToken, !.respR = pair.RefreshToken])
               /\ tokens' = tokens \cup {pair.AccessToken, pair.RefreshToken}
    /\ UNCHANGED <<beside, backend, now, held, nsess, sessions, recs, smu, sw, rkeys, hist>>

\* EXPIRE key p.expiration; its error (none for an absent key) is returned.
RedisRenew_Expire(r) ==
    /\ req[r].pc = "rr_expire"
    /\ LET s == req[r].claims.ssid IN
       /\ rkeys' = [rkeys EXCEPT ![s] = RExpire(RKey(s), RefreshExpire)]
       /\ Return(r, req[r], "nil")
       /\ held' = held \cup {req[r].pair.AccessToken, req[r].pair.RefreshToken}
       /\ hist' = [hist EXCEPT !.renewed = @ \cup {req[r].rtok}]
    /\ UNCHANGED <<beside, backend, now, tokens, nsess, sessions, recs, smu, sw>>

\* -------------------------------------------------- redis Session methods

RedisSessCanBegin(r) ==
    /\ backend = "redis"
    /\ CanBegin(r)
    /\ req[r].handle # NoSess

\* Session.Set, first round trip: json.Marshal and HSET.
RedisSession_Set(r, k, v) ==
    /\ RedisSessCanBegin(r)
    /\ LET s == req[r].handle IN
       /\ rkeys' = [rkeys EXCEPT ![s] = RHSet(RKey(s), k, JsonMarshal(v))]
       /\ Goto(r, [Enter(req[r], "Session.Set", "rs_expire", s) EXCEPT !.key = k, !.arg = v])
    /\ UNCHANGED <<beside, backend, now, tokens, held, nsess, sessions, recs, smu, sw, hist>>

\* Session.Set, second round trip: EXPIRE.
RedisSession_SetExpire(r) ==
    /\ req[r].pc = "rs_expire"
    /\ LET s == req[r].handle IN
       /\ rkeys' = [rkeys EXCEPT ![s] = RExpire(RKey(s), RefreshExpire)]
       /\ Return(r, req[r], "nil")
    /\ UNCHANGED <<beside, backend, now, tokens, held, nsess, sessions, recs, smu, sw, hist>>

\* Session.Get: HGET, redis.Nil for an absent field, json.Unmarshal.
RedisSession_Get(r, k) ==
    /\ RedisSessCanBegin(r)
    /\ LET s == req[r].handle
           e == [Enter(req[r], "Session.Get", "idle", s) EXCEPT !.key = k]
       IN IF RKey(s).f[k] = Absent THEN Return(r, e, "key not found")
          ELSE Return(r, [e EXCEPT !.val = JsonUnmarshal(RKey(s).f[k])], "nil")
    /\ UNCHANGED <<beside, backend, now, tokens, held, nsess, sessions, recs, smu, sw, rkeys, hist>>

\* Session.Del: HDEL.
RedisSession_Del(r, k) ==
    /\ RedisSessCanBegin(r)
    /\ LET s == req[r].handle IN
       /\ rkeys' = [rkeys EXCEPT ![s] = RHDel(RKey(s), k)]
       /\ Return(r, [Enter(req[r], "Session.Del", "idle", s) EXCEPT !.key = k], "nil")
    /\ UNCHANGED <<beside, backend, now, tokens, held, nsess, sessions, recs, smu, sw, hist>>

\* Session.Destroy: DEL.
RedisSession_Destroy(r) ==
    /\ RedisSessCanBegin(r)
    /\ LET s == req[r].handle IN
       /\ rkeys' = [rkeys EXCEPT ![s] = NoKey]
       /\ Return(r, Enter(req[r], "Session.Destroy", "idle", s), "nil")
       /\ hist' = [hist EXCEPT !.sdestroyed = @ \cup {s}]
    /\ UNCHANGED <<beside, backend, now, tokens, held, nsess, sessions, recs, smu, sw>>

\* Session.Refresh: EXPIRE.
RedisSession_Refresh(r) ==
    /\ RedisSessCanBegin(r)
    /\ LET s == req[r].handle IN
       /\ rkeys' = [rkeys EXCEPT ![s] = RExpire(RKey(s), RefreshExpire)]
       /\ Return(r, Enter(req[r], "Session.Refresh", "idle", s), "nil")
    /\ UNCHANGED <<beside, backend, now, tokens, held, nsess, sessions, recs, smu, sw, hist>>

\* ------------------------------------------------------ the specifications

InitWith(b) ==
    /\ backend = b
    /\ now = 0
    /\ tokens = {}
    /\ held = {}
    /\ nsess = 0
    /\ sessions = {}
    /\ recs = [s \in SSIDs |-> NoRec]
    /\ smu = [s \in SSIDs |-> 0]
    /\ sw = SweepIdle(0)
    /\ rkeys = [s \in SSIDs |-> NoKey]
    /\ req = [r \in Req |-> FreshCtx(NoToken, "access")]
    /\ last = NoLast
    /\ hist = [pdestroyed |-> {}, sdestroyed |-> {}, renewed |-> {},
               born |-> [s \in SSIDs |-> NoBorn]]
    /\ lk = NoLocks
    /\ lim = [kind |-> "none", rate |-> 0, counters |-> [k \in LimitKeys |-> 0],
              obj |-> <<>>, call |-> [r \in Req |-> [pc |-> "idle"]],
              res |-> [r |-> 0], okAt |-> [k \in LimitKeys |-> <<>>],
              clean |-> {}]
    /\ act = [built |-> FALSE, maxActive |-> 0, currentActive |-> 0,
              at |-> [r \in Conns |-> "idle"], status |-> [r \in Conns |-> 0],
              decs |-> [r \in Conns |-> 0]]
    /\ hnd = [r \in Req |-> [pc |-> "idle"]]
    /\ car = [kind |-> "none", name |-> "none", op |-> "none", pair |-> NoPair,
              header |-> {}, cookie |-> {}]

Init == \E b \in Backends : InitWith(b)

\* The workloads: what the requests of a specification call, and with
\* which arguments.  R is the set of request contexts that make the call.

OneUser == {CHOOSE u \in UserIds : TRUE}
OneData == {d \in DataInputs : ~d.nilmap}
OneVal == {CHOOSE v \in Vals : \A d \in DataInputs, k \in Keys : d.m[k] # v}

MemNewSessionCall(R, U, D) ==
    \E r \in R, u \in U, a \in Attrs, d \in D :
       MemNewSession(r, Ctx(r, NoToken, "access"), u, a, d)

MemGetCall(R) ==
    \/ \E r \in R, t \in Presentable : MemGet_Lookup(r, Ctx(r, t, "access"))
    \/ \E r \in R : MemGet_Lock(r)
    \/ \E r \in R : MemGet_Delete(r)
    \/ \E r \in R : MemGet_Renew(r)

MemDestroyCall(R) ==
    \E r \in R, t \in Presentable : MemDestroy(r, Ctx(r, t, "access"))

\* RenewToken, with n renewals to spend.
MemRenewCall(R, n) ==
    \/ \E r \in R, t \in Presentable :
         Budget(n) /\ MemRenew_Lookup(r, Ctx(r, t, "refresh"))
    \/ \E r \in R : MemRenew_Check(r)
    \/ \E r \in R : MemRenew_Renew(r)

MemSessionGetCall(R) == \E r \in R, k \in OneKey : MemSession_Get(r, k)
MemSessionSetCall(R, V) == \E r \in R, k \in OneKey, v \in V : MemSession_Set(r, k, v)
MemSessionDelCall(R) == \E r \in R, k \in OneKey : MemSession_Del(r, k)
MemSessionDestroyCall(R) == \E r \in R : MemSession_Destroy(r)
MemSessionRefreshCall(R) == \E r \in R : MemSession_Refresh(r)

SweepNext ==
    \/ Sweep_Collect
    \/ Sweep_Delete

RedisNewSessionCall(R, U, D) ==
    \E r \in R, u \in U, a \in Attrs, d \in D :
       RedisNewSession(r, Ctx(r, NoToken, "access"), u, a, d)

RedisGetCall(R) ==
    \E r \in R, t \in Presentable : RedisGet(r, Ctx(r, t, "access"))

RedisDestroyCall(R) ==
    \/ \E r \in R, t \in Presentable : RedisDestroy_Get(r, Ctx(r, t, "access"))
    \/ \E r \in R : RedisDestroy_Del(r)

RedisRenewCall(R, n) ==
    \/ \E r \in R, t \in Presentable :
         Budget(n) /\ RedisRenew_Exists(r, Ctx(r, t, "refresh"))
    \/ \E r \in R : RedisRenew_Expire(r)

RedisSessionSetCall(R, V) ==
    \/ \E r \in R, k \in OneKey, v \in V : RedisSession_Set(r, k, v)
    \/ \E r \in R : RedisSession_SetExpire(r)

RedisSessionGetCall(R) == \E r \in R, k \in OneKey : RedisSession_Get(r, k)
RedisSessionDelCall(R) == \E r \in R, k \in OneKey : RedisSession_Del(r, k)
RedisSessionDestroyCall(R) == \E r \in R : RedisSession_Destroy(r)
RedisSessionRefreshCall(R) == \E r \in R : RedisSession_Refresh(r)

\* One request context against either provider, every call of the two
\* interfaces; the clock may advance inside a call.
Next ==
    \/ Tick
    \/ \E r \in Solo : EndRequest(r)
    \/ MemNewSessionCall(Solo, UserIds, DataInputs)
    \/ MemGetCall(Solo)
    \/ MemDestroyCall(Solo)
    \/ MemRenewCall(Solo, MaxRenews)
    \/ MemSessionGetCall(Solo)
    \/ MemSessionSetCall(Solo, Vals)
    \/ MemSessionDelCall(Solo)
    \/ MemSessionDestroyCall(Solo)
    \/ MemSessionRefreshCall(Solo)
    \/ RedisNewSessionCall(Solo, UserIds, DataInputs)
    \/ RedisGetCall(Solo)
    \/ RedisDestroyCall(Solo)
    \/ RedisRenewCall(Solo, MaxRenews)
    \/ RedisSessionGetCall(Solo)
    \/ RedisSessionSetCall(Solo, Vals)
    \/ RedisSessionDelCall(Solo)
    \/ RedisSessionDestroyCall(Solo)
    \/ RedisSessionRefreshCall(Solo)

Spec == Init /\ [][Next]_vars

\* Token rotation: one request context, NewSession and RenewToken only,
\* with more renewals to spend.
RotateNext ==
    \/ Tick
    \/ MemNewSessionCall(Solo, OneUser, OneData)
    \/ MemRenewCall(Solo, MaxRotations)
    \/ RedisNewSessionCall(Solo, OneUser, OneData)
    \/ RedisRenewCall(Solo, MaxRotations)

SpecRotate == Init /\ [][RotateNext]_vars

\* The memory provider with its cleaner running beside one request context.
SweepSpecNext ==
    \/ Tick
    \/ MemNewSessionCall(Solo, OneUser, OneData)
    \/ MemGetCall(Solo)
    \/ MemRenewCall(Solo, MaxRenews)
    \/ SweepNext

SpecSweep == InitWith("memory") /\ [][SweepSpecNext]_vars

\* Concurrency: the handler that created the session keeps its Session and
\* calls its methods while the other request contexts call the provider.
Others == Req \ Solo

RaceNext ==
    \/ Tick
    \/ MemNewSessionCall(Solo, OneUser, OneData)
    \/ MemSessionGetCall(Solo)
    \/ MemSessionSetCall(Solo, OneVal)
    \/ MemSessionDelCall(Solo)
    \/ MemSessionDestroyCall(Solo)
    \/ MemSessionRefreshCall(Solo)
    \/ MemGetCall(Others)
    \/ MemDestroyCall(Others)
    \/ MemRenewCall(Others, MaxRenews)
    \/ RedisNewSessionCall(Solo, OneUser, OneData)
    \/ RedisSessionGetCall(Solo)
    \/ RedisSessionSetCall(Solo, OneVal)
    \/ RedisSessionDelCall(Solo)
    \/ RedisSessionDestroyCall(Solo)
    \/ RedisSessionRefreshCall(Solo)
    \/ RedisGetCall(Others)
    \/ RedisDestroyCall(Others)
    \/ RedisRenewCall(Others, MaxRenews)

SpecRace == Init /\ [][RaceNext]_vars


\* Concurrent request contexts that only refresh: Provider.Get,
\* Provider.RenewToken, Session.Refresh and Session.Set beside each other.
RefreshNext ==
    \/ Tick
    \/ MemNewSessionCall(Solo, OneUser, OneData)
    \/ MemGetCall(Req)
    \/ MemRenewCall(Req, MaxRenews)
    \/ MemSessionSetCall(Req, OneVal)
    \/ MemSessionRefreshCall(Req)
    \/ RedisNewSessionCall(Solo, OneUser, OneData)
    \/ RedisGetCall(Req)
    \/ RedisRenewCall(Req, MaxRenews)
    \/ RedisSessionSetCall(Req, OneVal)
    \/ RedisSessionRefreshCall(Req)

SpecRefresh == Init /\ [][RefreshNext]_vars

\* ------------------------------------------------------------ the properties
\* They read `last`, the call that returned in the step leading to the
\* state, and the snapshot g0 it took when it started.

NotFoundErrs == {"ErrSessionNotFound", "session missing"}
ExpiredErrs == {"ErrSessionExpired", "session expired"}

\* The session the call of `last` named with the token it presented.
LastSsid == IF last.c.tok # NoToken THEN SsidOf(last.c.tok) ELSE SsidOf(last.c.rtok)

\* C1: once Provider.Destroy has returned nil for a session, every
\* Provider.Get that starts afterwards and presents a still unexpired access
\* token of that session returns a session-not-found error and no Session,
\* on a new request context or on the one that performed the Destroy.
C1_GetAfterDestroyFails ==
    (/\ last.c.op = "Get"
     /\ last.c.tok.kind = "access"
     /\ last.c.g0.valid
     /\ last.c.g0.pd)
    => (last.c.err \in NotFoundErrs /\ last.c.ret = NoSess)

\* C2: memory backend: after Session.Destroy has returned on a record,
\* every access that begins afterwards (the Session's Get, Set, Del and
\* Refresh, Provider.Get and Provider.RenewToken with a token that passes
\* verification) fails as expired or not found, and the record is never
\* live again, whatever calls were in flight when Destroy ran.
C2_DestroyedRecordStaysDead ==
    backend = "memory" =>
      /\ \A s \in hist.sdestroyed : Expired(s)
      /\ (/\ last.c.g0.sd
          /\ \/ last.c.op \in {"Session.Get", "Session.Set", "Session.Del", "Session.Refresh"}
             \/ last.c.op \in {"Get", "RenewToken"} /\ last.c.g0.valid)
         => last.c.err \in NotFoundErrs \cup ExpiredErrs

\* C3: memory backend: a session for which Provider.Get or
\* Provider.RenewToken has returned success is still in the provider's map
\* when the sweep pass that ran beside the call has finished.
C3_RenewedSessionSurvivesSweep ==
    (/\ last.c.op \in {"Get", "RenewToken"}
     /\ last.c.err = "nil"
     /\ sw.pc = "idle"
     /\ sw.passes > 0)
    => last.c.claims.ssid \in sessions

\* C4: NewSession(u, attrs, data) followed at once by Provider.Get on a
\* request presenting the issued access token succeeds and returns a
\* Session whose Claims().UserId is u and whose Claims().SSID is the id of
\* the record NewSession created.
C4_GetAfterNewSession ==
    \A s \in SSIDs :
      (/\ last.c.op = "Get"
       /\ hist.born[s].ok
       /\ last.c.tok = hist.born[s].access
       /\ now = hist.born[s].at
       /\ ~last.c.g0.cached
       /\ ~Destroyed(s))
      => /\ last.c.err = "nil"
         /\ last.c.ret = s
         /\ last.c.hc.uid = hist.born[s].uid
         /\ last.c.hc.ssid = s

\* C4, the case: the Get has returned the Session of the second user.
C4_Witness ==
    \E s \in SSIDs :
      /\ last.c.op = "Get"
      /\ last.c.err = "nil"
      /\ last.c.tok = hist.born[s].access
      /\ now = hist.born[s].at
      /\ ~last.c.g0.cached
      /\ last.c.ret = s
      /\ last.c.hc.uid = "u2"

\* C5: when RenewToken succeeds for a live session with an unexpired
\* refresh token R, both new tokens carry R's UserId, SSID and Data, the
\* session is live (Provider.Get accepts the new access token for it), and
\* the record's expiry is later than before the call: not earlier, and
\* strictly later when the clock has moved on since the expiry was set.
C5_RenewExtendsLiveSession ==
    (/\ last.c.op = "RenewToken"
     /\ last.c.err = "nil"
     /\ last.c.g0.live)
    => LET s == LastSsid
           p == last.c.pair
       IN /\ ClaimsOf(p.AccessToken) = ClaimsOf(last.c.rtok)
          /\ ClaimsOf(p.RefreshToken) = ClaimsOf(last.c.rtok)
          /\ p.AccessToken.kind = "access"
          /\ p.AccessToken \in tokens
          /\ Live(s)
          /\ ExpiryOf(s) # {}
          /\ \A e0 \in last.c.g0.exp, e1 \in ExpiryOf(s) :
               e0 <= e1 /\ (e0 < now + RefreshExpire => e0 < e1)

\* C6: after Provider.Destroy or Session.Destroy has returned for a
\* session, every RenewToken that starts afterwards with an unexpired
\* refresh token of that session fails with a not-found or expired error,
\* injects no token and issues no pair.
C6_NoRenewalAfterDestroy ==
    (/\ last.c.op = "RenewToken"
     /\ last.c.g0.valid
     /\ (last.c.g0.pd \/ last.c.g0.sd))
    => /\ last.c.err \in NotFoundErrs \cup ExpiredErrs
       /\ last.c.pair = NoPair
       /\ last.c.respA = NoToken
       /\ last.c.respR = NoToken

\* C7: after RenewToken has succeeded with refresh token R, every later
\* RenewToken presenting R is rejected.
C7_UsedRefreshTokenRejected ==
    (last.c.op = "RenewToken" /\ last.c.g0.reused) => last.c.err # "nil"

C9_GetRefreshesExpiry ==
    (last.c.op = "Get" /\ last.c.err = "nil")
    => LET t == IF backend = "memory" THEN last.c.lnow ELSE now IN
       /\ ExpiryOf(last.c.ret) # {}
       /\ \A e \in ExpiryOf(last.c.ret) : e >= t + RefreshExpire

\* The expiry a refresh made in this step can set: the clock value the
\* call read, plus the expiration.
RefreshTargets ==
    {now + RefreshExpire} \cup
    {req[r].lnow + RefreshExpire : r \in {q \in Req : req[q].pc = "mg_renew"}}

\* C10: across every interleaving of Provider.Get, Provider.RenewToken,
\* Session.Refresh and Session.Set on a session that is not destroyed, the
\* record's expiry never decreases, and a step that changes it sets it to
\* the clock value read plus the expiration, so that a second refresh at
\* the same clock value leaves what the first one left.
C10_ExpiryNeverDecreases ==
    [][\A s \in SSIDs :
         (/\ ~Destroyed(s)'
          /\ ExpiryOf(s) # {}
          /\ ExpiryOf(s)' # {}
          /\ ExpiryOf(s)' # ExpiryOf(s))
         => /\ \A e0 \in ExpiryOf(s), e1 \in ExpiryOf(s)' : e0 < e1
            /\ ExpiryOf(s)' \subseteq RefreshTargets]_vars

\* C10, the case: RenewToken has refreshed the expiry of a live session
\* that is not destroyed at the clock value of the refresh before it, and
\* the expiry is what that refresh left.
C10_Witness ==
    /\ last.c.op = "RenewToken"
    /\ last.c.err = "nil"
    /\ last.c.g0.live
    /\ ~Destroyed(LastSsid)
    /\ last.c.g0.exp = {now + RefreshExpire}
    /\ ExpiryOf(LastSsid) = last.c.g0.exp

\* ------------------------------------------- one request resolving twice

\* The access tokens clients hold.
AccessTokens == {t \in held : t.kind = "access"}

\* Provider.Get of the memory provider on requests that present a token of T.
MemGetWith(R, T) ==
    \/ \E r \in R, t \in T : MemGet_Lookup(r, Ctx(r, t, "access"))
    \/ \E r \in R : MemGet_Lock(r)
    \/ \E r \in R : MemGet_Delete(r)
    \/ \E r \in R : MemGet_Renew(r)

\* Provider.Get of the Redis provider on requests that present a token of T.
RedisGetWith(R, T) ==
    \E r \in R, t \in T : RedisGet(r, Ctx(r, t, "access"))

\* A handler creates the session and may destroy it through the provider;
\* the other requests carry the session's access token and do nothing but
\* resolve the session, several times within one request.
MemoNext ==
    \/ Tick
    \/ \E r \in Others : EndRequest(r)
    \/ MemNewSessionCall(Solo, UserIds, DataInputs)
    \/ MemDestroyCall(Solo)
    \/ MemGetWith(Others, AccessTokens)
    \/ RedisNewSessionCall(Solo, UserIds, DataInputs)
    \/ RedisDestroyCall(Solo)
    \/ RedisGetWith(Others, AccessTokens)

SpecMemo == Init /\ [][MemoNext]_vars

\* C11: a Provider.Get on a request context on which an earlier Get has
\* resolved a Session returns that Session without a new verification or
\* lookup, so it cannot fail; and a Get that returns a Session on a context
\* with nothing resolved yet has verified the token it was given.  (The
\* requests of SpecMemo only call Get and carry one access token: the
\* Session a context holds is the one its earlier Get resolved.)
C11_SecondGetReturnsResolved ==
    (last.c.op = "Get" /\ last.r \in Others)
    => /\ last.c.handle # NoSess => (last.c.err = "nil" /\ last.c.ret = last.c.handle)
       /\ (last.c.err = "nil" /\ ~last.c.g0.cached /\ backend = "redis") => last.c.g0.valid

\* C12: Provider.Get returns a Session only for a request whose token is
\* not empty and passes verification and whose record is there and live
\* when the call starts; in every other case it returns an error and no
\* Session: the empty token is reported first, then the token that fails
\* verification.
C12_GetOnlyForLiveRecord ==
    last.c.op = "Get" =>
      /\ (last.c.err = "nil") <=> (last.c.ret # NoSess)
      /\ last.c.err = "nil" =>
           (last.c.tok # NoToken /\ last.c.g0.valid /\ last.c.g0.live)
      /\ last.c.tok = NoToken => last.c.err = "token not found"
      /\ (last.c.tok # NoToken /\ ~last.c.g0.valid) => last.c.err = "verify failed"

\* C13: Provider.Destroy on a request whose session cannot be resolved (no
\* token, a token that fails verification, a record that is absent or
\* expired) returns an error and does not call the carrier's Clear; it
\* returns nil only when a live record existed, and then the credential is
\* cleared and the record is gone.
C13_DestroyResolvesFirst ==
    last.c.op = "Destroy" =>
      /\ (last.c.tok = NoToken \/ ~last.c.g0.valid \/ ~last.c.g0.live)
           => (last.c.err # "nil" /\ ~last.c.cleared)
      /\ last.c.err = "nil"
           => (last.c.g0.live /\ last.c.cleared /\ ~Live(LastSsid))

SessionMethods ==
    {"Session.Get", "Session.Set", "Session.Del", "Session.Refresh", "Session.Destroy"}

\* C14: memory backend: each of Session.Get, Set, Del, Refresh and Destroy
\* invoked when now > expireTime returns ErrSessionExpired and leaves the
\* record, its data map and its expireTime, as it was.
C14_ExpiredSessionRefusesAll ==
    [][(/\ backend = "memory"
        /\ last'.c.op \in SessionMethods
        /\ Expired(last'.c.handle))
       => (last'.c.err = "ErrSessionExpired" /\ recs' = recs)]_vars

\* ------------------------------------------------ the cleaner left running

\* The memory provider with its cleaner running for ever beside requests
\* that create a session and renew its tokens.  The goroutine started by
\* NewProvider is never stopped and the runtime schedules it: each of its
\* two phases is taken when it stays enabled.
SweepLiveNext ==
    \/ Tick
    \/ MemNewSessionCall(Solo, UserIds, DataInputs)
    \/ MemRenewCall(Solo, MaxRenews)
    \/ Sweep_CollectEver
    \/ Sweep_Delete

SpecSweepLive ==
    /\ InitWith("memory")
    /\ [][SweepLiveNext]_vars
    /\ WF_vars(Sweep_CollectEver)
    /\ WF_vars(Sweep_Delete)

\* C15: memory backend: a pass of the cleaner that started after a session
\* expired removes it from the map unless it was renewed in between; the
\* cleaner never removes a session whose expireTime is not in the past; and
\* with the cleaner scheduled, every expired session in the map is
\* eventually removed (or has been renewed).
C15_SweepRemovesExpired ==
    /\ [][(sw.pc = "delete" /\ sw'.pc = "idle")
          => \A id \in sessions :
               (sw.now > recs[id].expireTime) => id \notin sessions']_vars
    /\ [][sw.pc = "delete"
          => \A id \in sessions \ sessions' : now > recs[id].expireTime]_vars
    /\ \A s \in SSIDs :
         (s \in sessions /\ Expired(s)) ~> (s \notin sessions \/ ~Expired(s))

\* C15, the case: the session has expired without a renewal and a pass of
\* the cleaner has removed it.
C15_Witness ==
    /\ sw.pc = "idle"
    /\ \E s \in SSIDs :
         /\ recs[s].alloc
         /\ s \notin sessions
         /\ Expired(s)
         /\ hist.renewed = {}

\* ------------------------------------------- several keys of one session

\* The data methods of a memory Session, on the keys K with the values V.
MemSessionDataCall(R, K, V) ==
    \/ \E r \in R, k \in K : MemSession_Get(r, k)
    \/ \E r \in R, k \in K, v \in V : MemSession_Set(r, k, v)
    \/ \E r \in R, k \in K : MemSession_Del(r, k)

\* The data methods of a Redis Session, on the keys K with the values V.
RedisSessionDataCall(R, K, V) ==
    \/ \E r \in R, k \in K : RedisSession_Get(r, k)
    \/ \E r \in R, k \in K, v \in V : RedisSession_Set(r, k, v)
    \/ \E r \in R : RedisSession_SetExpire(r)
    \/ \E r \in R, k \in K : RedisSession_Del(r, k)

\* One handler creates the session; the other requests resolve it; all of
\* them read and write its keys beside each other.
KeysNext ==
    \/ Tick
    \/ MemNewSessionCall(Solo, OneUser, DataInputs)
    \/ MemGetWith(Others, AccessTokens)
    \/ MemSessionDataCall(Req, Keys, Vals)
    \/ RedisNewSessionCall(Solo, OneUser, DataInputs)
    \/ RedisGetWith(Others, AccessTokens)
    \/ RedisSessionDataCall(Req, Keys, Vals)

SpecKeys == Init /\ [][KeysNext]_vars

\* C16: memory backend: Session.Set calls of several threads on distinct
\* keys of one live session all complete; each stores its value under its
\* key and leaves the other keys as they were, and Session.Get of a key
\* returns the value the record holds for it, the one last written.
C16_ConcurrentSetsKeepEveryKey ==
    [][(/\ backend = "memory"
        /\ last'.c.op \in {"Session.Set", "Session.Get"}
        /\ ~Expired(last'.c.handle))
       => LET s == last'.c.handle
              k == last'.c.key
          IN /\ last'.c.op = "Session.Set" =>
                  /\ last'.c.err = "nil"
                  /\ recs'[s].data.m = [recs[s].data.m EXCEPT ![k] = last'.c.arg]
             /\ (last'.c.op = "Session.Get" /\ recs[s].data.m[k] # Absent) =>
                  /\ last'.c.err = "nil"
                  /\ last'.c.val = recs[s].data.m[k]]_vars

\* C17: for a session created with initial data {k: v}, Session.Get(k)
\* returns v while the session is live and the entry is as NewSession
\* stored it; once Session.Destroy has returned, every later Session.Get on
\* that session, for every key, fails (expired or not found).
C17_DataUntilDestroy ==
    last.c.op = "Session.Get" =>
      LET s == last.c.handle
          k == last.c.key
          v == hist.born[s].data.m[k]
          stored == IF backend = "memory" THEN recs[s].data.m[k] = v
                    ELSE /\ RKey(s).f[k] # Absent
                         /\ JsonUnmarshal(RKey(s).f[k]) = v
      IN /\ (/\ last.c.g0.live
             /\ ~last.c.g0.sd
             /\ ~last.c.g0.pd
             /\ v # Absent
             /\ stored)
            => (last.c.err = "nil" /\ last.c.val = v)
         /\ last.c.g0.sd => last.c.err # "nil"

\* ------------------------------------------------- the jwt manager alone
\* A caller issues tokens and verifies them, and what an attacker makes of
\* them.  The clock of this specification counts in units of token time.

TTLs == 1..MaxTTL
ClaimSets == [uid : UserIds, ssid : SSIDs, data : Attrs]

\* What can be made of a token without the key: the same claims signed with
\* another key, under another method, or not at all.
ForgedFrom(t) ==
    {[t EXCEPT !.key = "K2"],
     [t EXCEPT !.alg = "HS384"],
     [t EXCEPT !.alg = "none", !.key = "none"]}

\* generateToken(claims, ttl): the claims are passed by value; the caller
\* keeps its claim set, and the token with the TTL it asked for.
JwtIssue(r, cl, ttl) ==
    /\ CanBegin(r)
    /\ Cardinality(tokens) < MaxIssued
    /\ LET tok == generateTokenAt(now, "access", cl.uid, cl.ssid, cl.data, ttl,
                                  Cardinality(tokens) + 1)
           c == [FreshCtx(NoToken, "access") EXCEPT
                   !.pair = [AccessToken |-> tok, RefreshToken |-> NoToken],
                   !.claims = cl, !.lnow = ttl]
       IN /\ tokens' = tokens \cup {tok}
          /\ req' = [req EXCEPT ![r] = c]
          /\ last' = [r |-> r, c |-> [c EXCEPT !.op = "generateToken", !.err = "nil"]]
    /\ UNCHANGED <<beside, backend, now, held, nsess, sessions, recs, smu, sw, rkeys, hist>>

\* VerifyToken(x) or VerifyRefreshToken(x), both of which are verifyToken(x),
\* for the token the caller holds or a forgery of it.
JwtVerify(r, via, x) ==
    /\ CanBegin(r)
    /\ req[r].pair.AccessToken # NoToken
    /\ LET e == VerifyErrorAt(now, x) IN
       last' = [r |-> r,
                c |-> [req[r] EXCEPT !.op = "verifyToken", !.arg = via, !.tok = x,
                                     !.err = e,
                                     !.hc = IF e = "nil" THEN ClaimsOf(x) ELSE NoClaims]]
    /\ UNCHANGED <<beside, backend, now, tokens, held, nsess, sessions, recs, smu, sw, rkeys, req, hist>>

JwtNext ==
    \/ Tick
    \/ \E r \in Solo, cl \in ClaimSets, ttl \in TTLs : JwtIssue(r, cl, ttl)
    \/ \E r \in Solo, via \in {"VerifyToken", "VerifyRefreshToken"} :
         \E x \in {req[r].pair.AccessToken} \cup ForgedFrom(req[r].pair.AccessToken) :
            JwtVerify(r, via, x)

SpecJwt == InitWith("memory") /\ [][JwtNext]_vars

\* What the claim says of a verification of the token the caller was issued
\* with TTL ttl: inside [issued-at, issued-at + ttl) it succeeds and returns
\* the caller's UserId, SSID and Data; from issued-at + ttl on it fails
\* with the expiry error.
VerifiedAsIssued ==
    LET t == last.c.tok
        ttl == last.c.lnow
    IN /\ (t.iat <= now /\ now < t.iat + ttl)
            => (last.c.err = "nil" /\ last.c.hc = last.c.claims)
       /\ now >= t.iat + ttl => last.c.err = "expired"

C19_NoFalsePositive ==
    last.c.op = "verifyToken" =>
        LET t == last.c.tok IN
        /\ last.c.err = "nil" => (t.key = SignKey /\ t.alg = Method)
        /\ last.c.hc # NoClaims => last.c.err = "nil"
        /\ t.alg # Method => last.c.err = "unexpected method"
        /\ (t.alg = Method /\ t.key # SignKey) => last.c.err = "signature invalid"

\* C19, the case: VerifyRefreshToken has been given an unexpired token whose
\* claims are those of an issued token, signed with another secret, and has
\* rejected it with a signature error and no claims.
C19_Witness ==
    /\ last.c.op = "verifyToken"
    /\ last.c.arg = "VerifyRefreshToken"
    /\ last.c.tok = [last.c.pair.AccessToken EXCEPT !.key = "K2"]
    /\ now < last.c.tok.exp
    /\ VerifyErrorAt(now, last.c.pair.AccessToken) = "nil"
    /\ last.c.err = "signature invalid"
    /\ last.c.hc = NoClaims

\* C20: no token kind is told apart, in either provider.  A refresh token
\* that passes verification, presented through the access carrier for a
\* session whose record is live, is accepted by a Provider.Get that reads
\* the carrier (its context holds no Session resolved earlier), which
\* returns that session; an access token that passes verification, presented in the
\* X-Refresh-Token header for such a session, is accepted by
\* Provider.RenewToken, which returns a new token pair for the session.
C20_NoTokenKind ==
    LET fit == /\ last.c.g0.valid
               /\ last.c.g0.live
               /\ \A e \in last.c.g0.exp : now <= e
    IN /\ (/\ last.c.op = "Get"
           /\ last.c.tok.kind = "refresh"
           /\ ~last.c.g0.cached
           /\ fit)
          => (last.c.err = "nil" /\ last.c.ret = SsidOf(last.c.tok))
       /\ (/\ last.c.op = "RenewToken"
           /\ last.c.rtok.kind = "access"
           /\ fit)
          => /\ last.c.err = "nil"
             /\ last.c.pair # NoPair
             /\ last.c.pair.AccessToken \notin {last.c.rtok, NoToken}
             /\ last.c.pair.RefreshToken \notin {last.c.rtok, NoToken}
             /\ SsidOf(last.c.pair.AccessToken) = SsidOf(last.c.rtok)
             /\ SsidOf(last.c.pair.RefreshToken) = SsidOf(last.c.rtok)

\* C20, the case: an access token has bought a token pair from RenewToken,
\* and now Provider.Get has resolved the session for a request that
\* presented a refresh token through the access carrier.
C20_Witness ==
    /\ last.c.op = "Get"
    /\ last.c.tok.kind = "refresh"
    /\ last.c.err = "nil"
    /\ last.c.ret = SsidOf(last.c.tok)
    /\ ~last.c.g0.cached
    /\ \E t \in hist.renewed : t.kind = "access" /\ t.ssid = last.c.ret

\* C21: after NewSession(userId, attrs, initialData) has succeeded, on
\* either backend, the backing record holds every key of initialData with
\* its value, and the bookkeeping fields user_id = userId and created_at.
C21_RecordHoldsDataAndBookkeeping ==
    (last.c.op = "NewSession" /\ last.c.err = "nil") =>
        LET s == last.c.ret
            d == hist.born[s].data
            field(k) ==
                IF backend = "memory"
                THEN (IF k \in Keys /\ ~recs[s].data.nilmap
                      THEN recs[s].data.m[k] ELSE Absent)
                ELSE (IF RKey(s).f[k] = Absent THEN Absent
                      ELSE JsonUnmarshal(RKey(s).f[k]))
        IN /\ \A k \in Keys : d.m[k] # Absent => field(k) = d.m[k]
           /\ field("user_id") = hist.born[s].uid
           /\ field("created_at") # Absent

\* ------------------------------------------- NewSession and its error path
\* redis NewSession when sess.init returns an error (json.Marshal refuses a
\* value of sessData, or the pipeline's Exec fails): uuid.New, the claims,
\* GenerateTokenPair and both injections have been done, no command has
\* reached the server, and the error is returned without a Session.
RedisNewSession_InitFails(r, c, u, a) ==
    /\ backend = "redis"
    /\ CanBegin(r)
    /\ nsess < MaxSessions
    /\ LET ssid == nsess + 1
           pair == GenerateTokenPair(u, ssid, a)
       IN /\ tokens' = tokens \cup {pair.AccessToken, pair.RefreshToken}
          /\ held' = held \cup {pair.AccessToken, pair.RefreshToken}
          /\ Return(r, [Enter(c, "NewSession", "idle", NoSess) EXCEPT
                          !.pair = pair, !.claims = ClaimsOf(pair.AccessToken),
                          !.respA = pair.AccessToken, !.respR = pair.RefreshToken],
                    "init failed")
    /\ nsess' = nsess + 1
    /\ UNCHANGED <<beside, backend, now, sessions, recs, smu, sw, rkeys, hist>>

\* A login handler on either provider, whose NewSession may fail, and the
\* requests that present what the client received.
CreateNext ==
    \/ Tick
    \/ \E r \in Solo : EndRequest(r)
    \/ MemNewSessionCall(Solo, UserIds, DataInputs)
    \/ RedisNewSessionCall(Solo, UserIds, DataInputs)
    \/ \E r \in Solo, u \in UserIds, a \in Attrs :
          RedisNewSession_InitFails(r, Ctx(r, NoToken, "access"), u, a)
    \/ MemGetCall(Solo)
    \/ RedisGetCall(Solo)

SpecCreate == Init /\ [][CreateNext]_vars

\* C22: session creation is atomic with token issuance.  NewSession either
\* returns a Session, with both tokens injected into the response and the
\* record created under the SSID of the issued claims, or returns an error
\* with no token injected and no record created; no client holds a token
\* of a session whose record was never created.
C22_CreationAtomic ==
    /\ last.c.op = "NewSession" =>
         IF last.c.err = "nil"
         THEN /\ last.c.ret # NoSess
              /\ last.c.respA # NoToken /\ last.c.respR # NoToken
              /\ SsidOf(last.c.respA) = last.c.ret
              /\ SsidOf(last.c.respR) = last.c.ret
              /\ Live(last.c.ret)
         ELSE /\ last.c.ret = NoSess
              /\ last.c.respA = NoToken /\ last.c.respR = NoToken
    /\ \A t \in held : hist.born[t.ssid].ok
    /\ \A s \in SSIDs : ExpiryOf(s) # {} => hist.born[s].ok

\* C23: no call of a configured provider or of a Session it returned ends
\* in a panic, whatever the arguments of NewSession were (a nil or an empty
\* initial data map included).
C23_NoCallPanics ==
    last.c.op \in {"NewSession", "Get", "Destroy", "RenewToken"} \cup SessionMethods
        => last.c.err # "panic"

\* ------------------------------------------- memory provider, lock by lock
\* What each operation of the memory provider does to Provider.mu and to
\* the Session.mu of the record it works on, in program order.  Get has
\* three courses: the id is not in the map, the record is live, the record
\* is expired; the cleaner's pass has two: nothing collected, some deleted.
LockOpsNested(op) ==
    IF op = "Get"
    THEN << <<"RLock", "p.mu">>, <<"Lock", "sess.mu">>, <<"RUnlock", "p.mu">>,
            <<"Unlock", "sess.mu">> >>
    ELSE IF op = "Get expired"
    THEN << <<"RLock", "p.mu">>, <<"RUnlock", "p.mu">>, <<"Lock", "sess.mu">>,
            <<"Lock", "p.mu">>, <<"Unlock", "p.mu">>, <<"Unlock", "sess.mu">> >>
    ELSE << <<"Lock", "p.mu">>, <<"Unlock", "p.mu">> >>

LockOps(op) ==
    CASE op \in {"NewSession", "Destroy"} ->
           << <<"Lock", "p.mu">>, <<"Unlock", "p.mu">> >>
      [] op \in {"Get absent", "RenewToken absent", "sweep none"} ->
           << <<"RLock", "p.mu">>, <<"RUnlock", "p.mu">> >>
      [] op \in {"Get", "RenewToken"} ->
           << <<"RLock", "p.mu">>, <<"RUnlock", "p.mu">>,
              <<"Lock", "sess.mu">>, <<"Unlock", "sess.mu">> >>
      [] op = "Get expired" ->
           << <<"RLock", "p.mu">>, <<"RUnlock", "p.mu">>,
              <<"Lock", "sess.mu">>, <<"Unlock", "sess.mu">>,
              <<"Lock", "p.mu">>, <<"Unlock", "p.mu">> >>
      [] op = "sweep" ->
           << <<"RLock", "p.mu">>, <<"RUnlock", "p.mu">>,
              <<"Lock", "p.mu">>, <<"Unlock", "p.mu">> >>
      [] op = "Session.Get" ->
           << <<"RLock", "sess.mu">>, <<"RUnlock", "sess.mu">> >>
      [] op \in {"Session.Set", "Session.Del", "Session.Destroy", "Session.Refresh"} ->
           << <<"Lock", "sess.mu">>, <<"Unlock", "sess.mu">> >>

\* What a goroutine may start: the cleaner its passes, a request any call.
LockCalls(t) ==
    IF t = 0 THEN {"sweep", "sweep none"}
    ELSE {"NewSession", "Destroy", "Get", "Get absent", "Get expired",
          "RenewToken", "RenewToken absent"} \cup SessionMethods

\* The goroutine t starts the operation op.
LockStart(t, op) ==
    /\ lk.at[t].op = "idle"
    /\ lk' = [lk EXCEPT !.at[t] = [op |-> op, i |-> 1]]
    /\ UNCHANGED <<store, lim, act, hnd, car>>

\* The goroutine t executes its next lock operation, sync.RWMutex as it
\* is: Lock first becomes the one writer (new readers are held back from
\* then on) and goes on when the readers have left; RLock goes on when no
\* writer has the mutex or waits for it.
LockStep(t) ==
    /\ lk.at[t].op # "idle"
    /\ LET ins == LockOps(lk.at[t].op)[lk.at[t].i]
           m == ins[2]
           on == IF lk.at[t].i = Len(LockOps(lk.at[t].op))
                 THEN [op |-> "idle", i |-> 0]
                 ELSE [lk.at[t] EXCEPT !.i = @ + 1]
       IN CASE ins[1] = "Lock" /\ t \notin lk.w[m] ->
                 /\ lk.w[m] = {}
                 /\ lk' = [lk EXCEPT !.w[m] = {t}]
            [] ins[1] = "Lock" /\ t \in lk.w[m] ->
                 /\ lk.r[m] = {}
                 /\ lk' = [lk EXCEPT !.active[m] = TRUE, !.at[t] = on]
            [] ins[1] = "Unlock" ->
                 lk' = [lk EXCEPT !.w[m] = {}, !.active[m] = FALSE, !.at[t] = on]
            [] ins[1] = "RLock" ->
                 /\ lk.w[m] = {}
                 /\ lk' = [lk EXCEPT !.r[m] = @ \cup {t}, !.at[t] = on]
            [] ins[1] = "RUnlock" ->
                 lk' = [lk EXCEPT !.r[m] = @ \ {t}, !.at[t] = on]
    /\ UNCHANGED <<store, lim, act, hnd, car>>

LocksNext ==
    \/ \E t \in Threads : \E op \in LockCalls(t) : LockStart(t, op)
    \/ \E t \in Threads : LockStep(t)

\* The scheduler runs every goroutine that can run, and a mutex that is
\* released again and again is in the end handed to the one that waits.
SpecLocks ==
    /\ InitWith("memory")
    /\ [][LocksNext]_vars
    /\ \A t \in Threads : SF_vars(LockStep(t))

\* C24: the memory backend is free of deadlock.  No goroutine waits for a
\* record lock while it holds the provider's map lock, or for the map lock
\* while it holds a record lock (none asks for a lock while it holds
\* one), and every operation that has started returns.
C24_DeadlockFree ==
    /\ [](\A t \in Threads :
            (/\ lk.at[t].op # "idle"
             /\ LockOps(lk.at[t].op)[lk.at[t].i][1] \in {"Lock", "RLock"})
            => \A m \in Mutexes : ~(t \in lk.r[m] \/ (t \in lk.w[m] /\ lk.active[m])))
    /\ \A t \in Threads : (lk.at[t].op # "idle") ~> (lk.at[t].op = "idle")

\* C24, the case: the cleaner has announced its Lock of the map while one
\* request still reads the map and the other waits for the record lock
\* that a Session method holds.
C24_Witness ==
    /\ 0 \in lk.w["p.mu"]
    /\ ~lk.active["p.mu"]
    /\ lk.r["p.mu"] # {}
    /\ lk.active["sess.mu"]

\* ------------------------------------------------------- rate limiters
\* NewSimpleLimiter(rate, window) or NewSlidingWindowLimiter(rate, window):
\* whatever rate the caller passes is kept as it is.
NewLimiter(kind, rate) ==
    /\ lim.kind = "none"
    /\ lim' = [lim EXCEPT !.kind = kind, !.rate = rate]
    /\ UNCHANGED <<store, lk, act, hnd, car>>

\* Allow(key), up to the lock: time.Now() is read, LoadOrStore returns the
\* key's counter or stores a new one (count 0, windowStart now; no
\* requests), and the call goes on to c.mu.Lock with the clock value it
\* read.
Allow_Load(r, key) ==
    /\ lim.kind # "none"
    /\ lim.call[r].pc = "idle"
    /\ LET new == lim.counters[key] = 0
           c == IF new THEN Len(lim.obj) + 1 ELSE lim.counters[key]
       IN lim' = [lim EXCEPT
                    !.counters[key] = c,
                    !.obj = IF new
                            THEN Append(@, [count |-> 0, windowStart |-> now,
                                             requests |-> <<>>, granted |-> 0])
                            ELSE @,
                    !.call[r] = [pc |-> "locked", key |-> key, now |-> now, c |-> c],
                    !.res = [r |-> 0]]
    /\ UNCHANGED <<store, lk, act, hnd, car>>

\* SimpleLimiter.Allow under c.mu: the window is reset when the clock value
\* read is at least one window after windowStart, the call is refused when
\* count has reached rate, and counted otherwise.  `granted` counts the
\* calls that returned true since the counter's last reset.
SimpleAllow_Locked(r) ==
    /\ lim.kind = "simple"
    /\ lim.call[r].pc = "locked"
    /\ LET cl == lim.call[r]
           c == lim.obj[cl.c]
           reset == cl.now - c.windowStart >= Window
           ok == reset \/ c.count < lim.rate
           c2 == IF reset
                 THEN [c EXCEPT !.count = 1, !.windowStart = cl.now, !.granted = 1]
                 ELSE IF ok THEN [c EXCEPT !.count = @ + 1, !.granted = @ + 1]
                 ELSE c
       IN lim' = [lim EXCEPT
                    !.obj[cl.c] = c2,
                    !.call[r] = [pc |-> "idle"],
                    !.res = [r |-> r, key |-> cl.key, ok |-> ok, c |-> cl.c,
                             reset |-> reset, before |-> c]]
    /\ UNCHANGED <<store, lk, act, hnd, car>>

\* SlidingWindowLimiter.Allow under c.mu: the timestamps not after
\* now - window are dropped, the call is refused when rate of them are
\* left, and its own clock value is appended otherwise.
SlidingAllow_Locked(r) ==
    /\ lim.kind = "sliding"
    /\ lim.call[r].pc = "locked"
    /\ LET cl == lim.call[r]
           c == lim.obj[cl.c]
           cutoff == cl.now - Window
           validRequests == SelectSeq(c.requests, LAMBDA t : t > cutoff)
           ok == Len(validRequests) < lim.rate
       IN lim' = [lim EXCEPT
                    !.obj[cl.c] = [c EXCEPT !.requests =
                                      IF ok THEN Append(validRequests, cl.now)
                                      ELSE validRequests],
                    !.call[r] = [pc |-> "idle"],
                    !.res = [r |-> r, key |-> cl.key, ok |-> ok, c |-> cl.c,
                             reset |-> FALSE, before |-> c],
                    !.okAt[cl.key] = IF ok THEN Append(@, now) ELSE @]
    /\ UNCHANGED <<store, lk, act, hnd, car>>

\* One limiter, built with some rate, and the requests that pass through
\* its middleware concurrently while time passes.  The requests to the
\* fixed-window limiter come from two clients, those to the sliding-window
\* limiter from one.
LimitNext ==
    \/ Tick
    \/ \E kind \in {"simple", "sliding"}, rate \in 0..MaxRate : NewLimiter(kind, rate)
    \/ \E r \in Req :
         \E key \in IF lim.kind = "simple" THEN LimitKeys ELSE {"ip:a"} :
            Allow_Load(r, key)
    \/ \E r \in Req : SimpleAllow_Locked(r)
    \/ \E r \in Req : SlidingAllow_Locked(r)

SpecLimit == InitWith("memory") /\ [][LimitNext]_vars

\* C25: SimpleLimiter, for each key and whatever rate it was built with:
\* at most rate calls of Allow return true between two resets of the key's
\* counter, a reset happens only when at least one window has passed since
\* windowStart, and a call for one key leaves the counters of the other
\* keys as they are.
C25_FixedWindowNeverAboveRate ==
    lim.kind = "simple" =>
      /\ \A k \in LimitKeys :
           lim.counters[k] # 0 => lim.obj[lim.counters[k]].granted <= lim.rate
      /\ lim.res.r # 0 =>
           /\ lim.res.reset => now - lim.res.before.windowStart >= Window
           /\ \A k \in LimitKeys \ {lim.res.key} : lim.counters[k] # lim.res.c

\* C26: SlidingWindowLimiter, for each key: in every interval of time of
\* the length of the window at most rate calls of Allow return true,
\* whatever the interleaving of the calls; and a call is refused exactly
\* when rate requests admitted before it lie within the last window.
C26_NoBurstInAnyWindow ==
    lim.kind = "sliding" =>
      /\ \A k \in LimitKeys : \A a \in 0..MaxTime :
           Cardinality({i \in DOMAIN lim.okAt[k] :
                          a <= lim.okAt[k][i] /\ lim.okAt[k][i] < a + Window})
             <= lim.rate
      /\ lim.res.r # 0 =>
           LET all == lim.okAt[lim.res.key]
               prior == IF lim.res.ok THEN SubSeq(all, 1, Len(all) - 1) ELSE all
           IN ~lim.res.ok <=>
                Cardinality({i \in DOMAIN prior : prior[i] > now - Window}) >= lim.rate

\* ---------------------------------------------- active-connection limit
\* Builder.Build: one middleware with its own counter, currentActive = 0.
ActiveBuild(maxActive) ==
    /\ ~act.built
    /\ act' = [act EXCEPT !.built = TRUE, !.maxActive = maxActive]
    /\ UNCHANGED <<store, lk, lim, hnd, car>>

\* An entry that would compare the counter's value before the request's
\* own increment.
ActiveEnterLoose(r) ==
    /\ act.built
    /\ act.at[r] = "idle"
    /\ act' = [act EXCEPT
                 !.currentActive = @ + 1,
                 !.at[r] = IF act.currentActive > act.maxActive
                           THEN "aborted" ELSE "handler",
                 !.status[r] = IF act.currentActive > act.maxActive THEN 429 ELSE 0,
                 !.decs[r] = 0]
    /\ UNCHANGED <<store, lk, lim, hnd, car>>

\* A request enters the middleware: atomic.AddInt64(&currentActive, 1), the
\* decrement is deferred, and with the value the addition returned the
\* request is aborted with 429 or goes into c.Next().
ActiveEnter(r) ==
    /\ act.built
    /\ act.at[r] = "idle"
    /\ LET current == act.currentActive + 1 IN
       act' = [act EXCEPT
                 !.currentActive = current,
                 !.at[r] = IF current > act.maxActive THEN "aborted" ELSE "handler",
                 !.status[r] = IF current > act.maxActive THEN 429 ELSE 0,
                 !.decs[r] = 0]
    /\ UNCHANGED <<store, lk, lim, hnd, car>>

\* The middleware function returns, after the abort or when c.Next() has
\* returned: the deferred atomic.AddInt64(&currentActive, -1) runs.
ActiveLeave(r) ==
    /\ act.at[r] \in {"aborted", "handler"}
    /\ act' = [act EXCEPT
                 !.currentActive = @ - 1,
                 !.at[r] = "idle",
                 !.status[r] = IF act.at[r] = "handler" THEN 200 ELSE @,
                 !.decs[r] = @ + 1]
    /\ UNCHANGED <<store, lk, lim, hnd, car>>

ActiveNext ==
    \/ \E n \in 0..MaxActive : ActiveBuild(n)
    \/ \E r \in Conns : ActiveEnter(r)
    \/ \E r \in Conns : ActiveLeave(r)

SpecActive == InitWith("memory") /\ [][ActiveNext]_vars

\* C27: for one middleware built with maxActive, at every moment at most
\* maxActive requests are inside c.Next(); a request whose arrival takes
\* the counter above maxActive is answered 429 and does not run the
\* handler; every request, admitted or rejected, takes its one back
\* exactly once, so the counter is never negative, counts the requests in
\* flight, and is 0 when there is none.
C27_ActiveNeverAboveMax ==
    LET inFlight == {r \in Conns : act.at[r] # "idle"} IN
    /\ Cardinality({r \in Conns : act.at[r] = "handler"}) <= act.maxActive
    /\ act.currentActive = Cardinality(inFlight)
    /\ act.currentActive >= 0
    /\ \A r \in Conns :
         /\ act.at[r] = "aborted" => act.status[r] = 429
         /\ act.at[r] = "idle" /\ act.status[r] # 0 => act.decs[r] = 1
         /\ act.at[r] # "idle" => act.decs[r] = 0

\* C27, the case: with maxActive = 1 one request is in the handler, a second
\* one has been answered 429 and has left, and a third has just been
\* aborted and still holds its count.
C27_Witness ==
    /\ act.maxActive = 1
    /\ \E a, b, c \in Conns :
         /\ act.at[a] = "handler"
         /\ act.at[b] = "idle" /\ act.status[b] = 429 /\ act.decs[b] = 1
         /\ act.at[c] = "aborted"
    /\ act.currentActive = 2

\* ------------------------------------------------------ handler wrappers
\* A BS that would bind the parameters first and look for the session
\* afterwards.
WrapBeginBindFirst(r, kind, sessOK, bindOK) ==
    /\ hnd[r].pc \in {"idle", "done"}
    /\ LET h == [pc |-> "done", kind |-> kind, sessOK |-> sessOK, bindOK |-> bindOK,
                 invoked |-> FALSE, err |-> "nil", code |-> 0,
                 status |-> 0, aborted |-> FALSE, logged |-> FALSE, body |-> "none"]
       IN hnd' = [hnd EXCEPT ![r] =
                    IF kind \in {"B", "BS"} /\ ~bindOK
                    THEN [h EXCEPT !.status = 400, !.body = "code 400"]
                    ELSE IF kind \in {"S", "BS"} /\ ~sessOK
                    THEN [h EXCEPT !.status = 401, !.aborted = TRUE]
                    ELSE [h EXCEPT !.pc = "fn"]]
    /\ UNCHANGED <<store, lk, lim, act, car>>

\* A request reaches the handler a wrapper returned, up to the call of the
\* business function: S and BS call session.Get and answer 401 (aborting)
\* when it fails; then B and BS bind the parameters and answer 400 when
\* that fails.
WrapBegin(r, kind, sessOK, bindOK) ==
    /\ hnd[r].pc \in {"idle", "done"}
    /\ LET h == [pc |-> "done", kind |-> kind, sessOK |-> sessOK, bindOK |-> bindOK,
                 invoked |-> FALSE, err |-> "nil", code |-> 0,
                 status |-> 0, aborted |-> FALSE, logged |-> FALSE, body |-> "none"]
       IN hnd' = [hnd EXCEPT ![r] =
                    IF kind \in {"S", "BS"} /\ ~sessOK
                    THEN [h EXCEPT !.status = 401, !.aborted = TRUE]
                    ELSE IF kind \in {"B", "BS"} /\ ~bindOK
                    THEN [h EXCEPT !.status = 400, !.body = "code 400"]
                    ELSE [h EXCEPT !.pc = "fn"]]
    /\ UNCHANGED <<store, lk, lim, act, car>>

\* The business function returns (res, err) with res.Code = code, and the
\* wrapper answers: nothing for an error that is ErrNoResponse, 401 for one
\* that is ErrUnauthorized (errors.Is: the error itself or one that wraps
\* it), for any other error a log entry and c.JSON(http.StatusOK, ...)
\* with res.Code and the error's message, and c.JSON(http.StatusOK, res)
\* for nil.
WrapBusiness(r, err, wrapped, code) ==
    /\ hnd[r].pc = "fn"
    /\ LET h == [hnd[r] EXCEPT !.pc = "done", !.invoked = TRUE, !.code = code,
                               !.err = IF wrapped THEN "wraps " \o err ELSE err]
       IN hnd' = [hnd EXCEPT ![r] =
                    IF err = "ErrNoResponse" THEN h
                    ELSE IF err = "ErrUnauthorized"
                    THEN [h EXCEPT !.status = 401, !.aborted = TRUE]
                    ELSE IF err # "nil"
                    THEN [h EXCEPT !.status = 200, !.logged = TRUE, !.body = "code and msg"]
                    ELSE [h EXCEPT !.status = 200, !.body = "res"]]
    /\ UNCHANGED <<store, lk, lim, act, car>>

WrapNext ==
    \/ \E r \in Req, kind \in {"W", "B", "S", "BS"}, sessOK, bindOK \in BOOLEAN :
          WrapBegin(r, kind, sessOK, bindOK)
    \/ \E r \in Req, err \in {"nil", "ErrNoResponse", "ErrUnauthorized", "db error"},
          wrapped \in BOOLEAN, code \in {0, 500} :
          (err = "nil" => ~wrapped) /\ WrapBusiness(r, err, wrapped, code)

SpecWrap == InitWith("memory") /\ [][WrapNext]_vars

\* C28: in S and BS the business function is invoked only after
\* session.Get has returned a Session without error; when session.Get
\* fails the response is 401, the request is aborted and the function is
\* never invoked, in BS whether the parameters would bind or not.
C28_SessionBeforeBusiness ==
    \A r \in Req :
      (hnd[r].pc # "idle" /\ hnd[r].kind \in {"S", "BS"}) =>
         /\ (hnd[r].pc = "fn" \/ hnd[r].invoked) => hnd[r].sessOK
         /\ ~hnd[r].sessOK =>
              /\ hnd[r].pc = "done"
              /\ hnd[r].status = 401
              /\ hnd[r].aborted
              /\ ~hnd[r].invoked

\* C28, the case: a request without a session whose parameters do not bind
\* either has been answered 401 by BS, while another request's business
\* function has been invoked by S.
C28_Witness ==
    \E r, q \in Req :
      /\ hnd[r].pc = "done" /\ hnd[r].kind = "BS"
      /\ ~hnd[r].sessOK /\ ~hnd[r].bindOK
      /\ hnd[r].status = 401
      /\ hnd[q].pc = "done" /\ hnd[q].kind = "S" /\ hnd[q].invoked

\* C29: W, B, S and BS answer the outcome of the business function with
\* exactly one response: none for an error that is ErrNoResponse, 401 for
\* one that is ErrUnauthorized, a log entry and status 500 for any other
\* error, and status 200 with the Result for nil.
C29_OutcomeToResponse ==
    \A r \in Req :
      (hnd[r].pc = "done" /\ hnd[r].invoked) =>
         LET base == IF hnd[r].err \in {"ErrNoResponse", "wraps ErrNoResponse"}
                     THEN "ErrNoResponse"
                     ELSE IF hnd[r].err \in {"ErrUnauthorized", "wraps ErrUnauthorized"}
                     THEN "ErrUnauthorized"
                     ELSE IF hnd[r].err = "nil" THEN "nil" ELSE "other"
         IN /\ base = "ErrNoResponse" => hnd[r].status = 0
            /\ base = "ErrUnauthorized" => hnd[r].status = 401
            /\ base = "other" => (hnd[r].logged /\ hnd[r].status = 500)
            /\ base = "nil" => (hnd[r].status = 200 /\ hnd[r].body = "res")

\* C30: Session.Refresh on a live record extends the expiry and leaves the
\* content alone, on both backends: when Refresh returns nil at time t, the
\* record's expiry is t + the session expiration and every key and value of
\* the record is what it was.
C30_RefreshExtendsExpiry ==
    [][\A s \in DOMAIN recs :
          (/\ last'.c.op = "Session.Refresh"
           /\ last'.c.err = "nil"
           /\ last'.c.handle = s
           /\ Live(s))
          => /\ ExpiryOf(s)' = {now' + RefreshExpire}
             /\ recs'[s].data = recs[s].data
             /\ rkeys'[s].f = rkeys[s].f]_vars

\* C31: memory backend, every access to a published record's expireTime is
\* made under the record's own lock: no state has one request holding
\* Session.mu of a record with the write of its expireTime as its next
\* statement (Provider.Get) while another request has, as its next
\* statement, the read of the same expireTime that RenewToken makes before
\* it ever takes Session.mu.
C31_RecordAccessUnderLock ==
    \A r \in Req : \A q \in Req \ {r} :
       ~(/\ backend = "memory"
         /\ req[r].pc = "mg_renew"
         /\ smu[req[r].claims.ssid] = r
         /\ req[q].pc = "mr_check"
         /\ req[q].claims.ssid = req[r].claims.ssid)

\* C32: memory backend, a record is dead from the instant now >= expireTime
\* on: a Session.Get, Set, Del or Refresh called when the clock has reached
\* the record's expireTime fails, and so does a Provider.Get that reads the
\* clock under the record's lock at or after the expireTime.
C32_DeadAtExpiryInstant ==
    (/\ backend = "memory"
     /\ last.c.g0.exp # {})
    => \A e \in last.c.g0.exp :
          /\ (/\ last.c.op \in {"Session.Get", "Session.Set", "Session.Del", "Session.Refresh"}
              /\ now >= e)
             => last.c.err # "nil"
          /\ (/\ last.c.op = "Get"
              /\ last.c.lnow >= e)
             => last.c.err # "nil"

\* ------------------------------------------------- values of several types

\* Values handed to Session.Set as `any`: a string, an int, a float64.
GoVals == {"v2", "int:1", "float64:1"}

\* One handler creates a session with initial data and then reads, writes
\* and removes its keys, with values of several Go types.
TypedNext ==
    \/ Tick
    \/ MemNewSessionCall(Solo, OneUser, OneData)
    \/ MemSessionDataCall(Solo, Keys, GoVals)
    \/ RedisNewSessionCall(Solo, OneUser, OneData)
    \/ RedisSessionDataCall(Solo, Keys, GoVals)

SpecTyped == Init /\ [][TypedNext]_vars

\* C33: key/value semantics of a live session, on both backends.  A
\* Session.Get(k) that follows the NewSession or the successful
\* Session.Set(k, v) that stored k returns the value stored; a Get of a key
\* that was never set, or that follows the Session.Del of the key, fails
\* with not found; a Session.Del of an absent key returns nil and changes
\* nothing; Set and Del on k leave every other key as it was.
C33_KeyValueSemantics ==
    [][\A s \in SSIDs :
        LET has(k) == IF backend = "memory" THEN recs[s].data.m[k] # Absent
                      ELSE RKey(s).f[k] # Absent
            raw(k) == IF backend = "memory" THEN recs[s].data.m[k] ELSE rkeys[s].f[k]
            rawAfter(k) == IF backend = "memory" THEN recs'[s].data.m[k] ELSE rkeys'[s].f[k]
            k == last'.c.key
        IN /\ (/\ last'.c.op = "Session.Get"
               /\ last'.c.handle = s
               /\ Live(s))
              => /\ (/\ last.c.op = "Session.Set"
                     /\ last.c.err = "nil"
                     /\ last.c.handle = s
                     /\ last.c.key = k)
                    => (last'.c.err = "nil" /\ last'.c.val = last.c.arg)
                 /\ (/\ last.c.op = "NewSession"
                     /\ last.c.err = "nil"
                     /\ last.c.ret = s
                     /\ hist.born[s].data.m[k] # Absent)
                    => (last'.c.err = "nil" /\ last'.c.val = hist.born[s].data.m[k])
                 /\ (/\ last.c.op = "NewSession"
                     /\ last.c.err = "nil"
                     /\ last.c.ret = s
                     /\ hist.born[s].data.m[k] = Absent)
                    => last'.c.err = "key not found"
                 /\ (/\ last.c.op = "Session.Del"
                     /\ last.c.err = "nil"
                     /\ last.c.handle = s
                     /\ last.c.key = k)
                    => last'.c.err = "key not found"
           /\ (/\ last'.c.op = "Session.Del"
               /\ last'.c.handle = s
               /\ Live(s)
               /\ ~has(k))
              => (last'.c.err = "nil" /\ recs' = recs /\ rkeys' = rkeys)
           /\ \A r \in Req : \A k2 \in Keys :
                LET cx == IF last'.r = r THEN last'.c ELSE req'[r] IN
                (/\ cx.op \in {"Session.Set", "Session.Del"}
                 /\ cx.handle = s
                 /\ Live(s)
                 /\ k2 # cx.key)
                => rawAfter(k2) = raw(k2)]_vars

\* ----------------------------------------------------- the token carriers
\* The response of a request as NewSession and RenewToken write it: the
\* header fields (http.Header.Set keeps one value under the canonical form
\* of the name) and the cookies, as sets of <<name, token>>.

\* header.NewCarrierWithHeader(name) (NewCarrier: "Authorization"), or
\* cookie.NewCarrier(name), handed to a provider.
CarrierBuild(kind, name) ==
    /\ car.kind = "none"
    /\ car' = [car EXCEPT !.kind = kind, !.name = name]
    /\ last' = NoLast
    /\ UNCHANGED <<backend, now, tokens, held, nsess, sessions, recs, smu, sw,
                   rkeys, req, hist, lk, lim, act, hnd>>

\* The injections of NewSession and of RenewToken on a new response:
\* carrier.Inject(ctx, tokenPair.AccessToken), then
\* ctx.Context.Header("X-Refresh-Token", tokenPair.RefreshToken).
CarrierInject(op, u) ==
    /\ car.kind # "none"
    /\ Cardinality(tokens) < 2 * MaxIssued
    /\ LET pair == GenerateTokenPair(u, 1, "role_a")
           Canonical(n) == IF n = "x-refresh-token" THEN "X-Refresh-Token" ELSE n
           Put(h, n, v) == {f \in h : f[1] # n} \cup {<<n, v>>}
           h1 == IF car.kind = "header"
                 THEN Put({}, Canonical(car.name), pair.AccessToken) ELSE {}
           c1 == IF car.kind = "cookie"
                 THEN Put({}, car.name, pair.AccessToken) ELSE {}
       IN /\ car' = [car EXCEPT !.op = op, !.pair = pair, !.cookie = c1,
                        !.header = Put(h1, Canonical("X-Refresh-Token"), pair.RefreshToken)]
          /\ tokens' = tokens \cup {pair.AccessToken, pair.RefreshToken}
    /\ last' = NoLast
    /\ UNCHANGED <<backend, now, held, nsess, sessions, recs, smu, sw,
                   rkeys, req, hist, lk, lim, act, hnd>>

\* Providers built with a header carrier or a cookie carrier of some name,
\* answering NewSession and RenewToken.
CarrierNext ==
    \/ Tick
    \/ \E n \in {"Authorization", "X-Token", "X-Refresh-Token", "x-refresh-token"} :
          CarrierBuild("header", n)
    \/ \E n \in {"gint_token", "X-Refresh-Token"} : CarrierBuild("cookie", n)
    \/ \E op \in {"NewSession", "RenewToken"}, u \in UserIds : CarrierInject(op, u)

SpecCarrier == Init /\ [][CarrierNext]_vars

\* C34: for every carrier configuration, the response of a successful
\* NewSession or RenewToken carries both tokens: the access token in the
\* carrier's channel (its header field or its cookie) and the refresh
\* token in the header field X-Refresh-Token.
C34_BothTokensInResponse ==
    car.op # "none" =>
       /\ <<"X-Refresh-Token", car.pair.RefreshToken>> \in car.header
       /\ \E f \in (IF car.kind = "header" THEN car.header ELSE car.cookie) :
             f[2] = car.pair.AccessToken

\* ------------------------------------------- RenewToken and its error paths

\* redis RenewToken when the EXPIRE returns an error (the connection to the
\* server is lost after the EXISTS): both tokens have been injected, the
\* key keeps its TTL, the error of the command is returned.
RedisRenew_ExpireFails(r) ==
    /\ req[r].pc = "rr_expire"
    /\ Return(r, req[r], "expire failed")
    /\ held' = held \cup {req[r].pair.AccessToken, req[r].pair.RefreshToken}
    /\ UNCHANGED <<beside, backend, now, tokens, nsess, sessions, recs, smu, sw, rkeys, hist>>

\* One request context against either provider: NewSession, Destroy, and
\* RenewToken on requests that present a token in the access carrier or in
\* the X-Refresh-Token header, with a Redis server that may fail.
RenewFailNext ==
    \/ Tick
    \/ MemNewSessionCall(Solo, OneUser, OneData)
    \/ MemDestroyCall(Solo)
    \/ \E r \in Solo, t \in Presentable, ch \in {"access", "refresh"} :
          Budget(MaxRenews) /\ MemRenew_Lookup(r, Ctx(r, t, ch))
    \/ \E r \in Solo : MemRenew_Check(r) \/ MemRenew_Renew(r)
    \/ RedisNewSessionCall(Solo, OneUser, OneData)
    \/ RedisDestroyCall(Solo)
    \/ \E r \in Solo, t \in Presentable, ch \in {"access", "refresh"} :
          Budget(MaxRenews) /\ RedisRenew_Exists(r, Ctx(r, t, ch))
    \/ \E r \in Solo : RedisRenew_Expire(r) \/ RedisRenew_ExpireFails(r)

SpecRenewFail == Init /\ [][RenewFailNext]_vars

\* C35: for both providers, RenewToken reads the refresh token from the
\* X-Refresh-Token request header only: a request with a valid token in the
\* access carrier alone fails with no refresh token; and a RenewToken that
\* returns an error has injected no token into the response and has left
\* the record's expiry and data as they were when it was called.
C35_FailedRenewalLeavesNoTrace ==
    [][last'.c.op = "RenewToken" =>
         /\ last'.c.rtok = NoToken => last'.c.err = "no refresh token"
         /\ last'.c.err # "nil" =>
              /\ last'.c.respA = NoToken
              /\ last'.c.respR = NoToken
              /\ \A s \in SSIDs :
                    s = SsidOf(last'.c.rtok) =>
                       /\ ExpiryOf(s)' = last'.c.g0.exp
                       /\ recs'[s].data = recs[s].data
                       /\ rkeys'[s].f = rkeys[s].f]_vars

\* C36: Redis backend, once Destroy has deleted the record of a session, no
\* operation on a Session handle obtained before the deletion makes the
\* record's key exist again: in every state the key of a destroyed session
\* is absent, and a Provider.Get (resolving the token) or a
\* Provider.RenewToken called with that session's tokens fails.
C36_DeletedKeyStaysDeleted ==
    backend = "redis" =>
       /\ \A s \in SSIDs : Destroyed(s) => ~rkeys[s].present
       /\ (/\ last.c.op \in {"Get", "RenewToken"}
           /\ ~last.c.g0.cached
           /\ (last.c.g0.pd \/ last.c.g0.sd))
          => last.c.err # "nil"

\* C37: memory backend, after Provider.Destroy has returned nil for a
\* session, every Session.Get, Set, Del and Refresh on a Session handle of
\* that session obtained before the Destroy fails, returning no value and
\* leaving the session's data as it was.
C37_HandleDeadAfterProviderDestroy ==
    [][(/\ backend = "memory"
        /\ last'.c.op \in {"Session.Get", "Session.Set", "Session.Del", "Session.Refresh"}
        /\ last'.c.g0.pd)
       => /\ last'.c.err # "nil"
          /\ last'.c.val = "none"
          /\ recs' = recs]_vars

\* C38: for both providers, under every interleaving of RenewToken with a
\* concurrent destroy of the same session or with the record's expiry, a
\* RenewToken that returns nil has issued and injected a fresh pair and
\* leaves, at the moment it returns, the session record existing and live
\* with its expiry refreshed.
C38_RenewalOnlyForExistingSession ==
    (last.c.op = "RenewToken" /\ last.c.err = "nil")
    => /\ last.c.respA = last.c.pair.AccessToken
       /\ last.c.respR = last.c.pair.RefreshToken
       /\ last.c.pair.AccessToken \in tokens
       /\ Live(LastSsid)
       /\ ExpiryOf(LastSsid) = {now + RefreshExpire}

\* C39: for both providers, in every reachable state, for a session that
\* has not been destroyed: the record's expiry is at least the expires-at
\* of every refresh token a client has received for it from NewSession or
\* RenewToken; hence while such a refresh token is unexpired the record is
\* present and live, and a RenewToken presenting it does not fail with
\* session not found or session expired.
C39_RecordOutlivesRefreshTokens ==
    /\ \A t \in held :
         (t.kind = "refresh" /\ ~Destroyed(t.ssid)) =>
            /\ \A e \in ExpiryOf(t.ssid) :
                  (backend = "memory" \/ RLive(t.ssid)) => e * TimePrecision >= t.exp
            /\ verifyToken(t) => Live(t.ssid)
    /\ (/\ last.c.op = "RenewToken"
        /\ last.c.rtok \in held
        /\ last.c.rtok.kind = "refresh"
        /\ verifyToken(last.c.rtok)
        /\ ~Destroyed(LastSsid))
       => last.c.err \notin NotFoundErrs \cup ExpiredErrs

\* -------------------------------------------- the limiters' cleanupLoop

\* cleanupLoop, for one key of the Range, in two steps.  First, under c.mu:
\* a SimpleLimiter counter is expired when its window began two windows
\* ago, a SlidingWindowLimiter counter when it holds no timestamp or its
\* last timestamp lies two windows back; the lock is released.  Then
\* l.counters.Delete(key) removes the key of an expired counter from the
\* map.  The cleaner removes at most MaxSweeps counters.
Cleanup(key) ==
    /\ lim.kind # "none"
    /\ IF key \in lim.clean
       THEN lim' = [lim EXCEPT !.counters[key] = 0, !.clean = @ \ {key},
                               !.res = [r |-> 0]]
       ELSE /\ lim.counters[key] # 0
            /\ Len(lim.obj) <= MaxSweeps
            /\ LET c == lim.obj[lim.counters[key]]
                   expired ==
                      IF lim.kind = "simple"
                      THEN now - c.windowStart >= Window * 2
                      ELSE \/ Len(c.requests) = 0
                           \/ c.requests[Len(c.requests)] < now - Window * 2
               IN lim' = [lim EXCEPT !.clean = IF expired THEN @ \cup {key} ELSE @,
                                     !.res = [r |-> 0]]
    /\ UNCHANGED <<store, lk, act, hnd, car>>

\* One limiter with a positive rate, the requests of one client passing
\* through it concurrently, and its cleaner running beside them.
CleanNext ==
    \/ Tick
    \/ \E kind \in {"simple", "sliding"}, rate \in 1..MaxRate : NewLimiter(kind, rate)
    \/ \E r \in Req : Allow_Load(r, "ip:a")
    \/ \E r \in Req : SimpleAllow_Locked(r)
    \/ \E r \in Req : SlidingAllow_Locked(r)
    \/ Cleanup("ip:a")

SpecClean == InitWith("memory") /\ [][CleanNext]_vars

\* C40: the limiters' cleanup does not weaken the limit, under every
\* interleaving of cleanupLoop with Allow calls.  When cleanup removes a
\* key's counter, no request was admitted on that counter within the
\* current window and no Allow call is about to count on it; and the
\* requests admitted for a key within one window, on whatever counter they
\* were counted, are at most rate.
C40_CleanupKeepsTheLimit ==
    [][\A k \in LimitKeys :
         /\ (lim.counters[k] # 0 /\ lim'.counters[k] = 0) =>
               LET c == lim.obj[lim.counters[k]] IN
               /\ \A r \in Req :
                     lim.call[r].pc = "locked" => lim.call[r].c # lim.counters[k]
               /\ lim.kind = "simple" => ~(c.granted > 0 /\ now - c.windowStart < Window)
               /\ lim.kind = "sliding" =>
                     \A i \in DOMAIN c.requests : c.requests[i] <= now - Window
         /\ (lim'.kind = "sliding" /\ k = "ip:a") =>
               \A a \in 0..MaxTime :
                  Cardinality({i \in DOMAIN lim'.okAt[k] :
                                 a <= lim'.okAt[k][i] /\ lim'.okAt[k][i] < a + Window})
                    <= lim'.rate
         /\ (lim'.kind = "simple" /\ k = "ip:a") =>
               \A a \in 0..MaxTime :
                  Cardinality({ij \in (DOMAIN lim'.obj) \X (1..MaxRate) :
                                 /\ a <= lim'.obj[ij[1]].windowStart
                                 /\ lim'.obj[ij[1]].windowStart < a + Window
                                 /\ ij[2] <= lim'.obj[ij[1]].granted})
                    <= lim'.rate]_vars

====
